---- MODULE Spec2Model ----
(***************************************************************************)
(* Model of the booking admission and concurrency-control engine of        *)
(* ojaswiii/booking-manager: the ticket lock table                         *)
(* (utils/concurrency/ticket_lock_manager.go), the admission queues        *)
(* (utils/concurrency/queue_manager.go), the booking processor             *)
(* (utils/concurrency/booking_processor.go), the confirm / cancel use      *)
(* cases (internal/usecase/booking.go) and the ticket and booking stores   *)
(* they call (internal/repository).                                        *)
(*                                                                         *)
(* Time is counted in minutes.  Identifiers (uuid values) are strings.     *)
(***************************************************************************)
EXTENDS Integers, Sequences, FiniteSets, TLC

(***************************************************************************)
(* Bounds of the model.                                                    *)
(***************************************************************************)
\* the clock stops at MaxTime minutes
MaxTime == 11
\* the number of booking requests submitted in a run
MaxRequests == 2
\* the number of ConfirmBooking / CancelBooking calls in progress at once
MaxCalls == 2
\* the capacity of each admission queue (the program's is 100)
BufferSize == 2
\* the minutes that pass in one step of the engine's clock
TickStep == 11

(***************************************************************************)
(* Program constants.                                                      *)
(***************************************************************************)
\* ExpiresAt: now.Add(10 * time.Minute)
LockTTL == 10
\* NewQueueManager(3, 100, logger); for i := 0; i < 3; i++ { go bp.processQueue(i) }
QueueCount == 3
\* float64(len(ticketIDs)) * 50.0
TicketPrice == 50
\* ExpiresAt: time.Now().Add(15 * time.Minute)
BookingHold == 15

(***************************************************************************)
(* Identifier universes.                                                   *)
(***************************************************************************)
Users == {"u1", "u2"}
Tickets == {"t1", "t2"}
\* event identifiers, as the code points of eventID.String(): "e1" and "e2"
Events == {<<101, 49>>, <<101, 50>>}
\* the TicketIDs of a request: one or two tickets, none named twice
TicketLists ==
    {<<t>> : t \in Tickets} \cup
    ({<<t1, t2>> : t1, t2 \in Tickets} \ {<<t, t>> : t \in Tickets})
\* booking identifiers: request number r creates booking number r (uuid.New())
BookingIDs == 1..MaxRequests
Queues == 0..(QueueCount - 1)
CallIDs == 1..MaxCalls

\* the zero uuid, used for fields of a record that stands for "no entry"
Nil == "nil"

VARIABLES
    now,        \* time.Now(), in minutes
    locks,      \* TicketLockManager.locks: ticket -> entry (exists = FALSE: no key)
    last,       \* the latest direct call of the lock-table API and what it returned
    queues,     \* QueueManager.Queues: queue index -> the buffered requests
    proc,       \* the goroutine processQueue(i): where it is and its locals
    stats,      \* BookingProcessor.stats
    tickets,    \* table tickets: ticket -> status
    bookings,   \* table bookings: booking id -> row (exists = FALSE: no row)
    submitted,  \* the number of requests created so far
    calls,      \* the ConfirmBooking / CancelBooking calls in progress
    lockReq,    \* history: the request whose LockTicket call created the entry
    outcome,    \* history: what each request recorded
    life,       \* bp.ctx, the goroutine cleanupExpiredLocks, and a Shutdown call
    elmLocks,   \* EventLockManager.locks: event -> *EventLock (0: no key)
    heap,       \* the EventLock structs allocated so far
    caller      \* the goroutines calling GetLock / ReleaseLock or the ticket
                \* repository: where each is in its call, and its locals

lockVars == <<now, locks, last>>
elmVars == <<elmLocks, heap, caller>>
engineVars ==
    <<queues, proc, stats, tickets, bookings, submitted, calls, lockReq, outcome, life,
      elmVars>>
vars == <<now, locks, last, queues, proc, stats, tickets, bookings, submitted, calls,
          lockReq, outcome, life, elmLocks, heap, caller>>

(***************************************************************************)
(* TicketLockManager                                                       *)
(***************************************************************************)
\* a key that is not in the map
NoLock == [exists |-> FALSE, UserID |-> Nil, LockedAt |-> 0, ExpiresAt |-> 0]

\* &TicketLock{TicketID, UserID, LockedAt: now, ExpiresAt: now + 10 min}
NewTicketLock(u, n) ==
    [exists |-> TRUE, UserID |-> u, LockedAt |-> n, ExpiresAt |-> n + LockTTL]

NewTicketLockManager == [t \in Tickets |-> NoLock]

\* now.Before(x)  and  now.After(x)
Before(n, x) == n < x
After(n, x) == n > x

\* LockTicket with the owner comparison dropped: a live lock is handed to anyone.
LockTicket_NoOwnerCheck(tbl, t, u, n) ==
    IF tbl[t].exists /\ Before(n, tbl[t].ExpiresAt)
    THEN [ret |-> TRUE, locks |-> tbl]
    ELSE [ret |-> TRUE, locks |-> [tbl EXCEPT ![t] = NewTicketLock(u, n)]]

\* LockTicket(ticketID, userID): the value returned and the table afterwards.
LockTicket(tbl, t, u, n) ==
    IF tbl[t].exists /\ Before(n, tbl[t].ExpiresAt)
    THEN [ret |-> tbl[t].UserID = u, locks |-> tbl]
    ELSE [ret |-> TRUE, locks |-> [tbl EXCEPT ![t] = NewTicketLock(u, n)]]

\* UnlockTicket with the holder comparison dropped.
UnlockTicket_NoOwnerCheck(tbl, t, u) ==
    IF ~tbl[t].exists
    THEN [ret |-> FALSE, locks |-> tbl]
    ELSE [ret |-> TRUE, locks |-> [tbl EXCEPT ![t] = NoLock]]

\* UnlockTicket with the holder comparison inverted.
UnlockTicket_InvertedOwnerCheck(tbl, t, u) ==
    IF ~tbl[t].exists
    THEN [ret |-> FALSE, locks |-> tbl]
    ELSE IF tbl[t].UserID = u
         THEN [ret |-> FALSE, locks |-> tbl]
         ELSE [ret |-> TRUE, locks |-> [tbl EXCEPT ![t] = NoLock]]

\* UnlockTicket(ticketID, userID): the value returned and the table afterwards.
UnlockTicket(tbl, t, u) ==
    IF ~tbl[t].exists
    THEN [ret |-> FALSE, locks |-> tbl]
    ELSE IF tbl[t].UserID # u
         THEN [ret |-> FALSE, locks |-> tbl]
         ELSE [ret |-> TRUE, locks |-> [tbl EXCEPT ![t] = NoLock]]

\* IsTicketLocked that only looks for the key.
IsTicketLocked_NoExpiryCheck(tbl, t, n) == tbl[t].exists

\* IsTicketLocked(ticketID)
IsTicketLocked(tbl, t, n) ==
    IF ~tbl[t].exists THEN FALSE ELSE Before(n, tbl[t].ExpiresAt)

\* GetTicketLockInfo(ticketID): the entry returned and whether there is one
GetTicketLockInfo(tbl, t, n) ==
    IF ~tbl[t].exists THEN [lock |-> NoLock, ok |-> FALSE]
    ELSE IF After(n, tbl[t].ExpiresAt) THEN [lock |-> NoLock, ok |-> FALSE]
    ELSE [lock |-> tbl[t], ok |-> TRUE]

\* GetLockStats(): the three counts of the map returned
GetLockStats(tbl, n) ==
    LET present == {t \in Tickets : tbl[t].exists}
        active == {t \in present : Before(n, tbl[t].ExpiresAt)}
    IN  [total_locks |-> Cardinality(present),
         active_locks |-> Cardinality(active),
         expired_locks |-> Cardinality(present \ active)]

\* CleanupExpiredLocks that deletes every entry without comparing its expiry.
CleanupExpiredLocks_RemoveAll(tbl, n) ==
    LET present == {t \in Tickets : tbl[t].exists}
    IN  [ret |-> Cardinality(present),
         locks |-> [t \in Tickets |-> NoLock]]

\* CleanupExpiredLocks(): the number of entries removed and the table afterwards.
CleanupExpiredLocks(tbl, n) ==
    LET expired == {t \in Tickets : tbl[t].exists /\ After(n, tbl[t].ExpiresAt)}
    IN  [ret |-> Cardinality(expired),
         locks |-> [t \in Tickets |-> IF t \in expired THEN NoLock ELSE tbl[t]]]

(***************************************************************************)
(* QueueManager                                                            *)
(***************************************************************************)
RECURSIVE HashFrom(_, _, _)
\* for _, char := range hash { queueIndex = (queueIndex + int(char)) % qm.queueCount }
HashFrom(hash, k, queueIndex) ==
    IF k > Len(hash)
    THEN queueIndex
    ELSE HashFrom(hash, k + 1, (queueIndex + hash[k]) % QueueCount)

\* GetQueue that balances load: the index of a shortest queue.
GetQueue_LeastLoaded(eventID) ==
    CHOOSE q \in Queues :
        \A r \in Queues : Len(queues[q]) < Len(queues[r]) \/
                          (Len(queues[q]) = Len(queues[r]) /\ q <= r)

\* getQueueIndex(eventID)
getQueueIndex(eventID) == HashFrom(eventID, 1, 0)

\* GetQueue(eventID): the index of the queue it returns (the same loop again)
GetQueue(eventID) == HashFrom(eventID, 1, 0)

\* make(chan BookingRequest, bufferSize) for each of the queueCount queues
NewQueueManager == [q \in Queues |-> <<>>]

\* Enqueue that makes room in a full queue by dropping its oldest request.
Enqueue_DropOldest(qs, req) ==
    LET q == GetQueue(req.EventID)
    IN  IF Len(qs[q]) < BufferSize
        THEN [err |-> FALSE, queues |-> [qs EXCEPT ![q] = Append(@, req)]]
        ELSE [err |-> FALSE, queues |-> [qs EXCEPT ![q] = Append(Tail(@), req)]]

\* Enqueue that falls back to the next queue when the routed one is not empty.
Enqueue_Spill(qs, req) ==
    LET q == GetQueue(req.EventID)
        n == (q + 1) % QueueCount
    IN  IF qs[q] = <<>>
        THEN [err |-> FALSE, queues |-> [qs EXCEPT ![q] = Append(@, req)]]
        ELSE IF Len(qs[n]) < BufferSize
             THEN [err |-> FALSE, queues |-> [qs EXCEPT ![n] = Append(@, req)]]
             ELSE [err |-> TRUE, queues |-> qs]

\* Enqueue(req): select { case queue <- req: return nil; default: return error }
Enqueue(qs, req) ==
    LET q == GetQueue(req.EventID)
    IN  IF Len(qs[q]) < BufferSize
        THEN [err |-> FALSE, queues |-> [qs EXCEPT ![q] = Append(@, req)]]
        ELSE [err |-> TRUE, queues |-> qs]

(***************************************************************************)
(* The stores.  A statement is modelled by the rows it names and the       *)
(* columns it reads and writes; that the driver or the server rejects a    *)
(* call is the outcome err of the step that makes the call.                *)
(***************************************************************************)
Range(s) == {s[k] : k \in 1..Len(s)}

NoBooking ==
    [exists |-> FALSE, UserID |-> Nil, EventID |-> <<>>, TicketIDs |-> <<>>,
     Status |-> "none", TotalAmount |-> 0, CreatedAt |-> 0, ExpiresAt |-> 0]

\* ReserveTickets: the SELECT and the loop "if !availableTickets[id] { return error }"
ReserveTicketsCheck(tk, ids) == \A k \in 1..Len(ids) : tk[ids[k]] = "available"

\* ReserveTickets: UPDATE tickets SET status = 'reserved' WHERE id IN (ids); Commit
ReserveTicketsUpdate(tk, ids) ==
    [t \in Tickets |-> IF t \in Range(ids) THEN "reserved" ELSE tk[t]]

\* ConfirmTickets: UPDATE ... SET status = 'sold' WHERE id IN (ids) AND status =
\* 'reserved'; error when rowsAffected != len(ticketIDs).  The UPDATE is not undone.
ConfirmTickets(tk, ids) ==
    LET rows == {t \in Range(ids) : tk[t] = "reserved"}
    IN  [err |-> Cardinality(rows) # Len(ids),
         tickets |-> [t \in Tickets |-> IF t \in rows THEN "sold" ELSE tk[t]]]

\* ReleaseTickets: UPDATE ... SET status = 'available' WHERE id IN (ids) AND status
\* IN ('reserved', 'cancelled')
ReleaseTickets(tk, ids) ==
    [t \in Tickets |->
        IF t \in Range(ids) /\ tk[t] \in {"reserved", "cancelled"}
        THEN "available" ELSE tk[t]]

(***************************************************************************)
(* BookingProcessor                                                        *)
(***************************************************************************)
NoRequest == [ID |-> 0, UserID |-> Nil, EventID |-> <<>>, TicketIDs |-> <<>>]

\* a consumer waiting in select { case req := <-queue: ... }
Idle ==
    [pc |-> "idle", req |-> NoRequest, lockedTickets |-> <<>>, i |-> 0,
     stage |-> "none", pre |-> FALSE, dbErr |-> FALSE, createdAt |-> 0]

\* NewBookingProcessor: bp.ctx is not cancelled, the goroutines run, Shutdown has
\* not been called, the event lock manager's ticker and goroutine run
Running ==
    [done |-> FALSE, sweep |-> "running", shutdown |-> "none", elmDone |-> FALSE,
     elmSweep |-> "running"]

\* what a repository call of the processor can return: it is given bp.ctx, and a
\* call made with a cancelled context returns its error
DbErrors == IF life.done THEN {TRUE} ELSE BOOLEAN

\* calculateTotalAmount with the count of tickets left out.
calculateTotalAmount_Flat(ticketIDs) == TicketPrice

\* calculateTotalAmount(ticketIDs)
calculateTotalAmount(ticketIDs) == Len(ticketIDs) * TicketPrice

\* a Booking whose expiry is the hold duration with no clock reading added
NewBooking_NoClock(req, lockedTickets, created, n) ==
    [exists |-> TRUE, UserID |-> req.UserID, EventID |-> req.EventID,
     TicketIDs |-> lockedTickets, Status |-> "pending",
     TotalAmount |-> calculateTotalAmount(lockedTickets),
     CreatedAt |-> created, ExpiresAt |-> BookingHold]

\* booking := &domain_booking.Booking{..., CreatedAt: time.Now(), UpdatedAt:
\* time.Now(), ExpiresAt: time.Now().Add(15 * time.Minute)}: created is the first
\* reading of the clock, n the last
NewBooking(req, lockedTickets, created, n) ==
    [exists |-> TRUE, UserID |-> req.UserID, EventID |-> req.EventID,
     TicketIDs |-> lockedTickets, Status |-> "pending",
     TotalAmount |-> calculateTotalAmount(lockedTickets),
     CreatedAt |-> created, ExpiresAt |-> n + BookingHold]

\* history: the creator of each entry of the lock table tbl, 0 where there is none
Creators(tbl, old) == [t \in Tickets |-> IF tbl[t].exists THEN old[t] ELSE 0]

\* history: no requested ticket is locked live and all are available in the store
Pre(req) ==
    \A t \in Range(req.TicketIDs) :
        ~IsTicketLocked(locks, t, now) /\ tickets[t] = "available"

\* Users, events, tickets and consumers are interchangeable (the code compares
\* identifiers for equality only and the consumers run the same code), so the first
\* request of a run is taken to be u1's, for e1, with t1 first.
FirstRequest(u, e, tl) == u = "u1" /\ e = <<101, 49>> /\ tl[1] = "t1"

\* what the engine exposes to the caller about one request: the error CreateBooking
\* returned for it and the change of the counters GetStats reports.  cause: history.
Exposure(op, cause, err, total, successful, failed) ==
    [op |-> op, ticket |-> Nil, user |-> Nil, ret |-> err, count |-> 0, cause |-> cause,
     exposed |-> [err |-> err, total_requests |-> total,
                  successful_bookings |-> successful, failed_bookings |-> failed]]

\* BookingUsecase.CreateBooking: build the request and Enqueue it; the error of
\* Enqueue is returned to the caller.  track: whether last records what was returned.
Submit(u, e, tl, track) ==
    /\ submitted < MaxRequests
    /\ submitted = 0 => FirstRequest(u, e, tl)
    /\ LET req == [ID |-> submitted + 1, UserID |-> u, EventID |-> e, TicketIDs |-> tl]
           r == Enqueue(queues, req)
       IN  /\ queues' = r.queues
           /\ submitted' = IF r.err THEN submitted ELSE submitted + 1
           /\ last' = IF track
                      THEN Exposure("CreateBooking",
                                    IF r.err THEN "rejected" ELSE "admitted",
                                    r.err, 0, 0, 0)
                      ELSE last
    /\ UNCHANGED <<now, locks, proc, stats, tickets, bookings, calls, life, elmVars,
                   lockReq, outcome>>

\* BookingUsecase.CreateBooking
CreateBooking(u, e, tl) == Submit(u, e, tl, FALSE)

\* a consumer that takes the newest request of its queue
Dequeue_Lifo(q, track) ==
    /\ proc[q].pc = "idle"
    /\ queues[q] # <<>>
    /\ queues' = [queues EXCEPT ![q] = SubSeq(@, 1, Len(@) - 1)]
    /\ proc' = [proc EXCEPT ![q] = [Idle EXCEPT !.pc = "start",
                                               !.req = queues[q][Len(queues[q])],
                                               !.pre = FALSE]]
    /\ UNCHANGED <<now, locks, last, stats, tickets, bookings, submitted, calls, life,
                   elmVars, lockReq, outcome>>

\* processQueue: case req := <-queue.  track: whether the history field pre is kept.
Dequeue(q, track) ==
    /\ proc[q].pc = "idle"
    /\ queues[q] # <<>>
    /\ queues' = [queues EXCEPT ![q] = Tail(@)]
    /\ proc' = [proc EXCEPT ![q] = [Idle EXCEPT !.pc = "start",
                                               !.req = Head(queues[q]),
                                               !.pre = track /\ Pre(Head(queues[q]))]]
    /\ UNCHANGED <<now, locks, last, stats, tickets, bookings, submitted, calls, life,
                   elmVars, lockReq, outcome>>

\* processBookingRequest without the count of the request
Start_NoCount(q) ==
    /\ proc[q].pc = "start"
    /\ proc' = [proc EXCEPT ![q].pc = "user"]
    /\ UNCHANGED <<now, locks, last, queues, stats, tickets, bookings, submitted,
                   calls, life, elmVars, lockReq, outcome>>

\* bp.stats.TotalRequests++
Start(q) ==
    /\ proc[q].pc = "start"
    /\ stats' = [stats EXCEPT !.TotalRequests = @ + 1]
    /\ proc' = [proc EXCEPT ![q].pc = "user"]
    /\ UNCHANGED <<now, locks, last, queues, tickets, bookings, submitted, calls, life,
                   elmVars, lockReq, outcome>>

\* bp.userRepo.GetByID(bp.ctx, req.UserID)
ValidateUser(q) ==
    /\ proc[q].pc = "user"
    /\ \E err \in DbErrors :
        proc' = [proc EXCEPT ![q] =
                    IF err
                    THEN [@ EXCEPT !.pc = "recordFailure", !.stage = "user", !.dbErr = TRUE]
                    ELSE [@ EXCEPT !.pc = "event"]]
    /\ UNCHANGED <<now, locks, last, queues, stats, tickets, bookings, submitted,
                   calls, life, elmVars, lockReq, outcome>>

\* the event lookup with its error ignored
ValidateEvent_IgnoreError(q) ==
    /\ proc[q].pc = "event"
    /\ \E err \in DbErrors :
        proc' = [proc EXCEPT ![q] = [@ EXCEPT !.pc = "lock", !.i = 1, !.dbErr = err]]
    /\ UNCHANGED <<now, locks, last, queues, stats, tickets, bookings, submitted,
                   calls, life, elmVars, lockReq, outcome>>

\* bp.eventRepo.GetByID(bp.ctx, req.EventID)
ValidateEvent(q) ==
    /\ proc[q].pc = "event"
    /\ \E err \in DbErrors :
        proc' = [proc EXCEPT ![q] =
                    IF err
                    THEN [@ EXCEPT !.pc = "recordFailure", !.stage = "event", !.dbErr = TRUE]
                    ELSE [@ EXCEPT !.pc = "lock", !.i = 1]]
    /\ UNCHANGED <<now, locks, last, queues, stats, tickets, bookings, submitted,
                   calls, life, elmVars, lockReq, outcome>>

\* the failure path with the call of releaseTickets left out
ToRelease_Skip(p, stage) == [p EXCEPT !.pc = "recordFailure", !.i = 1, !.stage = stage]

\* where a failing request goes to call releaseTickets(lockedTickets, req.UserID)
ToRelease(p, stage) ==
    [p EXCEPT !.pc = IF p.lockedTickets = <<>> THEN "recordFailure" ELSE "release",
              !.i = 1, !.stage = stage]

\* the lock loop with a blocking lock: the consumer waits until the ticket is free
TryLock_Blocking(q) ==
    /\ proc[q].pc = "lock"
    /\ LET p == proc[q]
           t == p.req.TicketIDs[p.i]
           r == LockTicket(locks, t, p.req.UserID, now)
           got == [p EXCEPT !.lockedTickets = Append(@, t)]
       IN  /\ r.ret
           /\ locks' = r.locks
           /\ lockReq' = IF r.locks[t] # locks[t]
                         THEN [lockReq EXCEPT ![t] = p.req.ID] ELSE lockReq
           /\ proc' = [proc EXCEPT ![q] =
                         IF p.i = Len(p.req.TicketIDs)
                         THEN [got EXCEPT !.pc = "create", !.createdAt = now]
                         ELSE [got EXCEPT !.i = p.i + 1]]
    /\ UNCHANGED <<now, last, queues, stats, tickets, bookings, submitted, calls, life,
                   elmVars, outcome>>

\* for _, ticketID := range req.TicketIDs { if bp.ticketLocks.LockTicket(...) ... }
TryLock(q) ==
    /\ proc[q].pc = "lock"
    /\ LET p == proc[q]
           t == p.req.TicketIDs[p.i]
           r == LockTicket(locks, t, p.req.UserID, now)
           got == [p EXCEPT !.lockedTickets = Append(@, t)]
       IN  /\ locks' = r.locks
           /\ lockReq' = IF r.locks[t] # locks[t]
                         THEN [lockReq EXCEPT ![t] = p.req.ID] ELSE lockReq
           /\ proc' = [proc EXCEPT ![q] =
                         IF r.ret
                         THEN IF p.i = Len(p.req.TicketIDs)
                              THEN [got EXCEPT !.pc = "create", !.createdAt = now]
                              ELSE [got EXCEPT !.i = p.i + 1]
                         ELSE ToRelease(p, "lock")]
    /\ UNCHANGED <<now, last, queues, stats, tickets, bookings, submitted, calls, life,
                   elmVars, outcome>>

\* the rest of the Booking literal, whose ExpiresAt reads the clock again after the
\* reading kept in createdAt, and bp.bookingRepo.Create(bp.ctx, booking)
SaveBooking(q) ==
    /\ proc[q].pc = "create"
    /\ LET p == proc[q]
       IN  \E err \in DbErrors :
            IF err
            THEN /\ proc' = [proc EXCEPT ![q] =
                                [ToRelease(p, "create") EXCEPT !.dbErr = TRUE,
                                                               !.createdAt = 0]]
                 /\ UNCHANGED bookings
            ELSE /\ proc' = [proc EXCEPT ![q] =
                                [p EXCEPT !.pc = "reserve", !.createdAt = 0]]
                 /\ bookings' = [bookings EXCEPT ![p.req.ID] =
                                    NewBooking(p.req, p.lockedTickets, p.createdAt, now)]
    /\ UNCHANGED <<now, locks, last, queues, stats, tickets, submitted, calls, life,
                   elmVars, lockReq, outcome>>

\* bp.ticketRepo.ReserveTickets: BeginTxx, the SELECT and the availability loop
ReserveSelect(q) ==
    /\ proc[q].pc = "reserve"
    /\ LET p == proc[q]
       IN  \E err \in DbErrors :
            proc' = [proc EXCEPT ![q] =
                        IF err \/ ~ReserveTicketsCheck(tickets, p.lockedTickets)
                        THEN [p EXCEPT !.pc = "delete", !.stage = "reserve",
                                       !.dbErr = err]
                        ELSE [p EXCEPT !.pc = "reserveUpdate"]]
    /\ UNCHANGED <<now, locks, last, queues, stats, tickets, bookings, submitted,
                   calls, life, elmVars, lockReq, outcome>>

\* bp.ticketRepo.ReserveTickets: the UPDATE and tx.Commit(); on an error the deferred
\* tx.Rollback() leaves the rows as they were
ReserveUpdate(q) ==
    /\ proc[q].pc = "reserveUpdate"
    /\ LET p == proc[q]
       IN  \E err \in DbErrors :
            IF err
            THEN /\ proc' = [proc EXCEPT ![q] =
                               [p EXCEPT !.pc = "delete", !.stage = "reserve",
                                         !.dbErr = TRUE]]
                 /\ UNCHANGED tickets
            ELSE /\ tickets' = ReserveTicketsUpdate(tickets, p.lockedTickets)
                 /\ proc' = [proc EXCEPT ![q].pc = "recordSuccess"]
    /\ UNCHANGED <<now, locks, last, queues, stats, bookings, submitted, calls, life,
                   elmVars, lockReq, outcome>>

\* bp.bookingRepo.Delete(bp.ctx, booking.ID), whose error is dropped
RollbackBooking(q) ==
    /\ proc[q].pc = "delete"
    /\ LET p == proc[q]
       IN  \E err \in DbErrors :
            /\ bookings' = IF err THEN bookings
                           ELSE [bookings EXCEPT ![p.req.ID] = NoBooking]
            /\ proc' = [proc EXCEPT ![q] =
                          [ToRelease(p, "reserve") EXCEPT !.dbErr = p.dbErr \/ err]]
    /\ UNCHANGED <<now, locks, last, queues, stats, tickets, submitted, calls, life,
                   elmVars, lockReq, outcome>>

\* releaseTickets that stops after the first ticket
Release_FirstOnly(q) ==
    /\ proc[q].pc = "release"
    /\ LET p == proc[q]
           r == UnlockTicket(locks, p.lockedTickets[p.i], p.req.UserID)
       IN  /\ locks' = r.locks
           /\ lockReq' = Creators(r.locks, lockReq)
           /\ proc' = [proc EXCEPT ![q] = [p EXCEPT !.pc = "recordFailure"]]
    /\ UNCHANGED <<now, last, queues, stats, tickets, bookings, submitted, calls, life,
                   elmVars, outcome>>

\* releaseTickets: bp.ticketLocks.UnlockTicket(ticketID, userID), one ticket a step
Release(q) ==
    /\ proc[q].pc = "release"
    /\ LET p == proc[q]
           r == UnlockTicket(locks, p.lockedTickets[p.i], p.req.UserID)
       IN  /\ locks' = r.locks
           /\ lockReq' = Creators(r.locks, lockReq)
           /\ proc' = [proc EXCEPT ![q] =
                         IF p.i = Len(p.lockedTickets)
                         THEN [p EXCEPT !.pc = "recordFailure"]
                         ELSE [p EXCEPT !.i = p.i + 1]]
    /\ UNCHANGED <<now, last, queues, stats, tickets, bookings, submitted, calls, life,
                   elmVars, outcome>>

\* a failed request put back on its queue to be tried again
RecordFailure_Retry(q) ==
    /\ proc[q].pc = "recordFailure"
    /\ stats' = [stats EXCEPT !.FailedBookings = @ + 1]
    /\ outcome' = [outcome EXCEPT ![proc[q].req.ID] = "failure"]
    /\ queues' = Enqueue(queues, proc[q].req).queues
    /\ proc' = [proc EXCEPT ![q] = Idle]
    /\ UNCHANGED <<now, locks, last, tickets, bookings, submitted, calls, life,
                   elmVars, lockReq>>

\* a consumer whose goroutine ends with the first failure
RecordFailure_Exit(q) ==
    /\ proc[q].pc = "recordFailure"
    /\ stats' = [stats EXCEPT !.FailedBookings = @ + 1]
    /\ outcome' = [outcome EXCEPT ![proc[q].req.ID] = "failure"]
    /\ proc' = [proc EXCEPT ![q] = [Idle EXCEPT !.pc = "stopped"]]
    /\ UNCHANGED <<now, locks, last, queues, tickets, bookings, submitted, calls, life,
                   elmVars, lockReq>>

\* recordFailure(); return.  track: whether last records what the caller can see
\* of the failure, with its cause as history.
Fail(q, track) ==
    /\ proc[q].pc = "recordFailure"
    /\ stats' = [stats EXCEPT !.FailedBookings = @ + 1]
    /\ outcome' = [outcome EXCEPT ![proc[q].req.ID] = "failure"]
    /\ proc' = [proc EXCEPT ![q] = Idle]
    /\ last' = IF track
               THEN Exposure("recordFailure",
                             IF proc[q].stage = "lock" THEN "conflict"
                             ELSE IF proc[q].dbErr THEN "persistence" ELSE "other",
                             FALSE,
                             stats'.TotalRequests - stats.TotalRequests,
                             stats'.SuccessfulBookings - stats.SuccessfulBookings,
                             stats'.FailedBookings - stats.FailedBookings)
               ELSE last
    /\ UNCHANGED <<now, locks, queues, tickets, bookings, submitted, calls, life, elmVars,
                   lockReq>>

\* recordFailure(); return
RecordFailure(q) == Fail(q, FALSE)

\* recordSuccess()
RecordSuccess(q) ==
    /\ proc[q].pc = "recordSuccess"
    /\ stats' = [stats EXCEPT !.SuccessfulBookings = @ + 1]
    /\ outcome' = [outcome EXCEPT ![proc[q].req.ID] = "success"]
    /\ proc' = [proc EXCEPT ![q] = Idle]
    /\ UNCHANGED <<now, locks, last, queues, tickets, bookings, submitted, calls, life,
                   elmVars, lockReq>>

\* a sweep whose ticker fires but which deletes nothing
Sweep_NoDelete ==
    /\ life.sweep = "running"
    /\ UNCHANGED vars

\* cleanupExpiredLocks: case <-ticker.C: bp.ticketLocks.CleanupExpiredLocks()
Sweep ==
    /\ life.sweep = "running"
    /\ locks' = CleanupExpiredLocks(locks, now).locks
    /\ lockReq' = Creators(locks', lockReq)
    /\ UNCHANGED <<now, last, queues, proc, stats, tickets, bookings, submitted, calls,
                   life, elmVars, outcome>>

\* TickStep minutes pass
AdvanceClock ==
    /\ now + TickStep <= MaxTime
    /\ now' = now + TickStep
    /\ UNCHANGED <<locks, last, queues, proc, stats, tickets, bookings, submitted,
                   calls, life, elmVars, lockReq, outcome>>

(***************************************************************************)
(* BookingUsecase.ConfirmBooking and CancelBooking.  Each call of a        *)
(* repository is one step; a call that returns an error at its first       *)
(* checks leaves everything as it was.                                     *)
(***************************************************************************)
NoCall ==
    [op |-> "none", pc |-> "idle", BookingID |-> 0, UserID |-> Nil, TicketIDs |-> <<>>]

\* a new call runs in the first free slot
FreeSlot(c) == calls[c] = NoCall /\ \A d \in CallIDs : d < c => calls[d] # NoCall

\* history: the call op for booking b by user u has returned, with an error or nil
Returned(op, b, u, err) == [op |-> op, ticket |-> Nil, user |-> u, ret |-> err, count |-> b]

\* the name of the use case a call record belongs to
UseCase(op) == IF op = "confirm" THEN "ConfirmBooking" ELSE "CancelBooking"

\* the last a step of call c leaves: the return of the call when it returns here and
\* track is set, last as it was otherwise
Return(c, track, returns, err) ==
    IF track /\ returns
    THEN Returned(UseCase(calls[c].op), calls[c].BookingID, calls[c].UserID, err)
    ELSE last

\* ConfirmBooking without the comparison of booking.UserID with req.UserID
ConfirmBookingCall_AnyUser(c, b, u, track) ==
    /\ FreeSlot(c)
    /\ IF bookings[b].exists /\ bookings[b].Status = "pending"
       THEN /\ calls' = [calls EXCEPT ![c] =
                           [op |-> "confirm", pc |-> "tickets", BookingID |-> b,
                            UserID |-> u, TicketIDs |-> bookings[b].TicketIDs]]
            /\ UNCHANGED last
       ELSE /\ UNCHANGED calls
            /\ last' = IF track THEN Returned("ConfirmBooking", b, u, TRUE) ELSE last
    /\ UNCHANGED <<now, locks, queues, proc, stats, tickets, bookings, submitted,
                   lockReq, outcome, life, elmVars>>

\* ConfirmBooking: GetByID and the checks of UserID and Status.  track: whether last
\* records what the call returns.
ConfirmBookingCall(c, b, u, track) ==
    /\ FreeSlot(c)
    /\ IF bookings[b].exists /\ bookings[b].UserID = u /\ bookings[b].Status = "pending"
       THEN /\ calls' = [calls EXCEPT ![c] =
                           [op |-> "confirm", pc |-> "tickets", BookingID |-> b,
                            UserID |-> u, TicketIDs |-> bookings[b].TicketIDs]]
            /\ UNCHANGED last
       ELSE /\ UNCHANGED calls
            /\ last' = IF track THEN Returned("ConfirmBooking", b, u, TRUE) ELSE last
    /\ UNCHANGED <<now, locks, queues, proc, stats, tickets, bookings, submitted,
                   lockReq, outcome, life, elmVars>>

\* ConfirmBooking: GetByID and the checks of UserID and Status
ConfirmBooking(c, b, u) == ConfirmBookingCall(c, b, u, FALSE)

\* ConfirmBooking: b.ticketRepo.ConfirmTickets(ctx, booking.TicketIDs)
ConfirmBookingTicketsCall(c, track) ==
    /\ calls[c].op = "confirm" /\ calls[c].pc = "tickets"
    /\ \E err \in BOOLEAN :
        LET r == ConfirmTickets(tickets, calls[c].TicketIDs)
        IN  IF err
            THEN /\ calls' = [calls EXCEPT ![c] = NoCall]
                 /\ last' = Return(c, track, TRUE, TRUE)
                 /\ UNCHANGED tickets
            ELSE /\ tickets' = r.tickets
                 /\ last' = Return(c, track, r.err, TRUE)
                 /\ calls' = [calls EXCEPT ![c] =
                                IF r.err THEN NoCall ELSE [@ EXCEPT !.pc = "update"]]
    /\ UNCHANGED <<now, locks, queues, proc, stats, bookings, submitted, lockReq,
                   outcome, life, elmVars>>

\* ConfirmBooking: b.ticketRepo.ConfirmTickets(ctx, booking.TicketIDs)
ConfirmBookingTickets(c) == ConfirmBookingTicketsCall(c, FALSE)

\* CancelBooking: if booking.Status == BookingStatusConfirmed { return error }
CancelAllowed(status) == status # "confirmed"

\* CancelBooking: GetByID and the checks of UserID and Status
CancelBookingCall(c, b, u, track) ==
    /\ FreeSlot(c)
    /\ IF bookings[b].exists /\ bookings[b].UserID = u /\ CancelAllowed(bookings[b].Status)
       THEN /\ calls' = [calls EXCEPT ![c] =
                           [op |-> "cancel", pc |-> "tickets", BookingID |-> b,
                            UserID |-> u, TicketIDs |-> bookings[b].TicketIDs]]
            /\ UNCHANGED last
       ELSE /\ UNCHANGED calls
            /\ last' = IF track THEN Returned("CancelBooking", b, u, TRUE) ELSE last
    /\ UNCHANGED <<now, locks, queues, proc, stats, tickets, bookings, submitted,
                   lockReq, outcome, life, elmVars>>

\* CancelBooking: GetByID and the checks of UserID and Status
CancelBooking(c, b, u) == CancelBookingCall(c, b, u, FALSE)

\* CancelBooking: b.ticketRepo.ReleaseTickets(ctx, booking.TicketIDs)
CancelBookingTicketsCall(c, track) ==
    /\ calls[c].op = "cancel" /\ calls[c].pc = "tickets"
    /\ \E err \in BOOLEAN :
        IF err
        THEN /\ calls' = [calls EXCEPT ![c] = NoCall]
             /\ last' = Return(c, track, TRUE, TRUE)
             /\ UNCHANGED tickets
        ELSE /\ tickets' = ReleaseTickets(tickets, calls[c].TicketIDs)
             /\ calls' = [calls EXCEPT ![c].pc = "update"]
             /\ UNCHANGED last
    /\ UNCHANGED <<now, locks, queues, proc, stats, bookings, submitted, lockReq,
                   outcome, life, elmVars>>

\* CancelBooking: b.ticketRepo.ReleaseTickets(ctx, booking.TicketIDs)
CancelBookingTickets(c) == CancelBookingTicketsCall(c, FALSE)

\* ConfirmBooking and CancelBooking: b.bookingRepo.Update(ctx, booking), which
\* writes the status set on the copy read by GetByID, and the return of the call
UpdateBookingCall(c, track) ==
    /\ calls[c].pc = "update"
    /\ LET b == calls[c].BookingID
           status == IF calls[c].op = "confirm" THEN "confirmed" ELSE "cancelled"
       IN  \E err \in BOOLEAN :
            /\ bookings' = IF err \/ ~bookings[b].exists THEN bookings
                           ELSE [bookings EXCEPT ![b].Status = status]
            /\ last' = Return(c, track, TRUE, err \/ ~bookings[b].exists)
    /\ calls' = [calls EXCEPT ![c] = NoCall]
    /\ UNCHANGED <<now, locks, queues, proc, stats, tickets, submitted, lockReq,
                   outcome, life, elmVars>>

\* ConfirmBooking and CancelBooking: b.bookingRepo.Update(ctx, booking)
UpdateBooking(c) == UpdateBookingCall(c, FALSE)

(***************************************************************************)
(* EventLockManager.  An entry of elm.locks is a pointer to an EventLock   *)
(* struct; a caller keeps the pointer it looked up after the key is gone.  *)
(* The fields of the struct are read and written outside elm.mutex, so     *)
(* refCount++ and refCount-- are a read followed by a write.               *)
(***************************************************************************)
\* NewEventLockManager(30*time.Minute, 5*time.Minute): ttl
EventLockTTL == 30
\* NewEventLockManager(30*time.Minute, 5*time.Minute): maxIdle
MaxIdle == 5

\* the number of EventLock structs allocated in a run
MaxObjects == 2
\* the number of callers of GetLock / ReleaseLock
MaxCallers == 2
\* the number of GetLock ... ReleaseLock rounds of a caller
MaxRounds == 1
\* the clock of the event lock table stops at ElmMaxTime minutes
ElmMaxTime == 34
\* the minutes that pass in a short and in a long step of that clock
ShortStep == 3
LongStep == 31

Objects == 1..MaxObjects
Callers == 1..MaxCallers
\* the events the callers ask for
ElmEvents == {<<101, 49>>}

\* a struct that has not been allocated.  gets, releases: history, the GetLock and
\* ReleaseLock calls that completed on the struct.  heldBy: the state of mutex.
NoEventLock ==
    [allocated |-> FALSE, lastUsed |-> 0, expiresAt |-> 0, refCount |-> 0,
     heldBy |-> 0, gets |-> 0, releases |-> 0]

\* lock = &EventLock{mutex: &sync.Mutex{}, lastUsed: time.Now(),
\*                   expiresAt: time.Now().Add(elm.ttl), refCount: 0}
NewEventLock(n) ==
    [allocated |-> TRUE, lastUsed |-> n, expiresAt |-> n + EventLockTTL, refCount |-> 0,
     heldBy |-> 0, gets |-> 0, releases |-> 0]

\* locks: make(map[uuid.UUID]*EventLock)
NewEventLockManager == [e \in ElmEvents |-> 0]

\* a caller outside GetLock and ReleaseLock that holds no handle.  lock, exists: the
\* locals of the call; reg: the value of refCount it read; handle: the *sync.Mutex
\* GetLock returned, named by its struct; rounds: the rounds it has finished.
NoCaller ==
    [pc |-> "idle", event |-> <<>>, lock |-> 0, exists |-> FALSE, reg |-> 0,
     handle |-> 0, rounds |-> 0]

\* GetLock: elm.mutex.RLock(); lock, exists := elm.locks[eventID]; elm.mutex.RUnlock()
GetLockLookup(c, e) ==
    /\ caller[c].pc = "idle"
    /\ caller[c].rounds < MaxRounds
    /\ caller' = [caller EXCEPT ![c] =
                    [@ EXCEPT !.pc = IF elmLocks[e] # 0 THEN "touch" ELSE "create",
                              !.event = e, !.lock = elmLocks[e],
                              !.exists = elmLocks[e] # 0]]
    /\ UNCHANGED <<now, locks, last, queues, proc, stats, tickets, bookings, submitted,
                   calls, lockReq, outcome, life, elmLocks, heap>>

\* GetLock: if !exists { elm.mutex.Lock(); the second lookup; the new entry;
\* elm.mutex.Unlock() }
GetLockCreate(c) ==
    /\ caller[c].pc = "create"
    /\ LET e == caller[c].event
           free == {o \in Objects : ~heap[o].allocated}
       IN  IF elmLocks[e] # 0
           THEN /\ caller' = [caller EXCEPT ![c] =
                                [@ EXCEPT !.pc = "touch", !.lock = elmLocks[e],
                                          !.exists = TRUE]]
                /\ UNCHANGED <<elmLocks, heap>>
           ELSE /\ free # {}
                /\ LET o == CHOOSE x \in free : \A y \in free : x <= y
                   IN  /\ heap' = [heap EXCEPT ![o] = NewEventLock(now)]
                       /\ elmLocks' = [elmLocks EXCEPT ![e] = o]
                       /\ caller' = [caller EXCEPT ![c] =
                                       [@ EXCEPT !.pc = "touch", !.lock = o]]
    /\ UNCHANGED <<now, locks, last, queues, proc, stats, tickets, bookings, submitted,
                   calls, lockReq, outcome, life>>

\* GetLock: lock.lastUsed = time.Now(); lock.expiresAt = time.Now().Add(elm.ttl)
GetLockTouch(c) ==
    /\ caller[c].pc = "touch"
    /\ heap' = [heap EXCEPT ![caller[c].lock] =
                  [@ EXCEPT !.lastUsed = now, !.expiresAt = now + EventLockTTL]]
    /\ caller' = [caller EXCEPT ![c].pc = "incRead"]
    /\ UNCHANGED <<now, locks, last, queues, proc, stats, tickets, bookings, submitted,
                   calls, lockReq, outcome, life, elmLocks>>

\* GetLock: lock.refCount++, the read
GetLockIncRead(c) ==
    /\ caller[c].pc = "incRead"
    /\ caller' = [caller EXCEPT ![c] =
                    [@ EXCEPT !.pc = "incWrite", !.reg = heap[caller[c].lock].refCount]]
    /\ UNCHANGED <<now, locks, last, queues, proc, stats, tickets, bookings, submitted,
                   calls, lockReq, outcome, life, elmLocks, heap>>

\* GetLock: lock.refCount++, the write; return lock.mutex
GetLockIncWrite(c) ==
    /\ caller[c].pc = "incWrite"
    /\ heap' = [heap EXCEPT ![caller[c].lock] =
                  [@ EXCEPT !.refCount = caller[c].reg + 1, !.gets = @ + 1]]
    /\ caller' = [caller EXCEPT ![c] =
                    [@ EXCEPT !.pc = "got", !.handle = caller[c].lock]]
    /\ UNCHANGED <<now, locks, last, queues, proc, stats, tickets, bookings, submitted,
                   calls, lockReq, outcome, life, elmLocks>>

\* the caller's critical section: handle.Lock()
MutexLock(c) ==
    /\ caller[c].pc = "got"
    /\ heap[caller[c].handle].heldBy = 0
    /\ heap' = [heap EXCEPT ![caller[c].handle].heldBy = c]
    /\ caller' = [caller EXCEPT ![c].pc = "critical"]
    /\ UNCHANGED <<now, locks, last, queues, proc, stats, tickets, bookings, submitted,
                   calls, lockReq, outcome, life, elmLocks>>

\* the caller's critical section: handle.Unlock()
MutexUnlock(c) ==
    /\ caller[c].pc = "critical"
    /\ heap' = [heap EXCEPT ![caller[c].handle].heldBy = 0]
    /\ caller' = [caller EXCEPT ![c].pc = "unlocked"]
    /\ UNCHANGED <<now, locks, last, queues, proc, stats, tickets, bookings, submitted,
                   calls, lockReq, outcome, life, elmLocks>>

\* ReleaseLock: elm.mutex.RLock(); lock, exists := elm.locks[eventID];
\* elm.mutex.RUnlock(); with no entry the call returns
ReleaseLockLookup(c) ==
    /\ caller[c].pc = "unlocked"
    /\ LET o == elmLocks[caller[c].event]
       IN  caller' = [caller EXCEPT ![c] =
                        IF o # 0
                        THEN [@ EXCEPT !.pc = "decRead", !.lock = o, !.exists = TRUE,
                                       !.handle = 0]
                        ELSE [NoCaller EXCEPT !.rounds = caller[c].rounds + 1]]
    /\ UNCHANGED <<now, locks, last, queues, proc, stats, tickets, bookings, submitted,
                   calls, lockReq, outcome, life, elmLocks, heap>>

\* ReleaseLock: lock.refCount--, the read
ReleaseLockDecRead(c) ==
    /\ caller[c].pc = "decRead"
    /\ caller' = [caller EXCEPT ![c] =
                    [@ EXCEPT !.pc = "decWrite", !.reg = heap[caller[c].lock].refCount]]
    /\ UNCHANGED <<now, locks, last, queues, proc, stats, tickets, bookings, submitted,
                   calls, lockReq, outcome, life, elmLocks, heap>>

\* ReleaseLock: lock.refCount--, the write
ReleaseLockDecWrite(c) ==
    /\ caller[c].pc = "decWrite"
    /\ heap' = [heap EXCEPT ![caller[c].lock].refCount = caller[c].reg - 1]
    /\ caller' = [caller EXCEPT ![c].pc = "mark"]
    /\ UNCHANGED <<now, locks, last, queues, proc, stats, tickets, bookings, submitted,
                   calls, lockReq, outcome, life, elmLocks>>

\* ReleaseLock: if lock.refCount <= 0 { lock.expiresAt = time.Now().Add(-time.Second) }.
\* A second is below the grain of the clock: every later reading of the clock, and
\* the present one, is after that instant.
ReleaseLockMark(c) ==
    /\ caller[c].pc = "mark"
    /\ LET o == caller[c].lock
       IN  heap' = [heap EXCEPT ![o] =
                      [@ EXCEPT !.expiresAt = IF heap[o].refCount <= 0 THEN now - 1 ELSE @,
                                !.releases = @ + 1]]
    /\ caller' = [caller EXCEPT ![c] = [NoCaller EXCEPT !.rounds = caller[c].rounds + 1]]
    /\ UNCHANGED <<now, locks, last, queues, proc, stats, tickets, bookings, submitted,
                   calls, lockReq, outcome, life, elmLocks>>

\* performCleanup: the condition under which the entry of struct o is deleted
Evicted(o, n) ==
    \/ After(n, heap[o].expiresAt)
    \/ (heap[o].refCount = 0 /\ After(n, heap[o].lastUsed + MaxIdle))

\* cleanupExpiredLocks: case <-elm.cleanupTicker.C: elm.performCleanup().  Nothing
\* waits for this goroutine: a tick it received, or one left in the channel of the
\* ticker, is swept after elm.cancel(); the stopped ticker sends no further tick
\* ("drained").
PerformCleanup ==
    /\ life.elmSweep = "running"
    /\ elmLocks' = [e \in ElmEvents |->
                      IF elmLocks[e] # 0 /\ Evicted(elmLocks[e], now) THEN 0
                      ELSE elmLocks[e]]
    /\ life' = [life EXCEPT !.elmSweep = IF life.elmDone THEN "drained" ELSE @]
    /\ UNCHANGED <<now, locks, last, queues, proc, stats, tickets, bookings, submitted,
                   calls, lockReq, outcome, heap, caller>>

\* minutes pass
ElmTick(d) ==
    /\ now + d <= ElmMaxTime
    /\ now' = now + d
    /\ UNCHANGED <<locks, last, engineVars>>

(***************************************************************************)
(* The engine: NewBookingProcessor, the three consumers, the sweep, the    *)
(* callers of the use cases and the clock.                                 *)
(***************************************************************************)
EngineInit ==
    /\ queues = NewQueueManager
    /\ proc = [q \in Queues |-> Idle]
    /\ stats = [TotalRequests |-> 0, SuccessfulBookings |-> 0, FailedBookings |-> 0]
    /\ tickets = [t \in Tickets |-> "available"]
    /\ bookings = [b \in BookingIDs |-> NoBooking]
    /\ submitted = 0
    /\ calls = [c \in CallIDs |-> NoCall]
    /\ lockReq = [t \in Tickets |-> 0]
    /\ outcome = [b \in BookingIDs |-> "none"]
    /\ life = Running
    /\ elmLocks = NewEventLockManager
    /\ heap = [o \in Objects |-> NoEventLock]
    /\ caller = [c \in Callers |-> NoCaller]

Init ==
    /\ now = 0
    /\ locks = NewTicketLockManager
    /\ last = [op |-> "none", ticket |-> Nil, user |-> Nil, ret |-> FALSE, count |-> 0]
    /\ EngineInit

Next ==
    \/ \E u \in Users, e \in Events, tl \in TicketLists : CreateBooking(u, e, tl)
    \/ \E q \in Queues : Dequeue(q, FALSE)
    \/ \E q \in Queues : Start(q)
    \/ \E q \in Queues : ValidateUser(q)
    \/ \E q \in Queues : ValidateEvent(q)
    \/ \E q \in Queues : TryLock(q)
    \/ \E q \in Queues : SaveBooking(q)
    \/ \E q \in Queues : ReserveSelect(q)
    \/ \E q \in Queues : ReserveUpdate(q)
    \/ \E q \in Queues : RollbackBooking(q)
    \/ \E q \in Queues : Release(q)
    \/ \E q \in Queues : RecordFailure(q)
    \/ \E q \in Queues : RecordSuccess(q)
    \/ Sweep
    \/ AdvanceClock

\* the engine: submissions, the three consumers, the sweep and the clock
Spec == Init /\ [][Next]_vars

\* a consumer is processing a request, or a use-case call is in progress
Busy == (\E q \in Queues : proc[q].pc # "idle") \/ (\E c \in CallIDs : calls[c] # NoCall)

\* no call of ConfirmBooking or CancelBooking is in progress
CallsIdle == \A c \in CallIDs : calls[c] = NoCall

\* the callers of ConfirmBooking and CancelBooking, one call at a time
UseCaseStep ==
    \/ CallsIdle /\ \E c \in CallIDs, b \in BookingIDs, u \in Users : ConfirmBooking(c, b, u)
    \/ \E c \in CallIDs : ConfirmBookingTickets(c)
    \/ CallsIdle /\ \E c \in CallIDs, b \in BookingIDs, u \in Users : CancelBooking(c, b, u)
    \/ \E c \in CallIDs : CancelBookingTickets(c)
    \/ \E c \in CallIDs : UpdateBooking(c)

\* the engine and the callers of ConfirmBooking and CancelBooking, interleaved
LifeNext ==
    \/ \E u \in Users, e \in Events, tl \in TicketLists : CreateBooking(u, e, tl)
    \/ \E q \in Queues : Dequeue(q, FALSE)
    \/ \E q \in Queues : Start(q)
    \/ \E q \in Queues : ValidateUser(q)
    \/ \E q \in Queues : ValidateEvent(q)
    \/ \E q \in Queues : TryLock(q)
    \/ \E q \in Queues : SaveBooking(q)
    \/ \E q \in Queues : ReserveSelect(q)
    \/ \E q \in Queues : ReserveUpdate(q)
    \/ \E q \in Queues : RollbackBooking(q)
    \/ \E q \in Queues : Release(q)
    \/ \E q \in Queues : RecordFailure(q)
    \/ \E q \in Queues : RecordSuccess(q)
    \/ UseCaseStep
    \/ Sweep
    \/ AdvanceClock

LifeSpec == Init /\ [][LifeNext]_vars

\* one activity at a time: a request or a call runs to its end before anything else
\* starts
SeqNext ==
    \/ ~Busy /\ \E u \in Users, e \in Events, tl \in TicketLists : CreateBooking(u, e, tl)
    \/ ~Busy /\ \E q \in Queues : Dequeue(q, TRUE)
    \/ \E q \in Queues : Start(q)
    \/ \E q \in Queues : ValidateUser(q)
    \/ \E q \in Queues : ValidateEvent(q)
    \/ \E q \in Queues : TryLock(q)
    \/ \E q \in Queues : SaveBooking(q)
    \/ \E q \in Queues : ReserveSelect(q)
    \/ \E q \in Queues : ReserveUpdate(q)
    \/ \E q \in Queues : RollbackBooking(q)
    \/ \E q \in Queues : Release(q)
    \/ \E q \in Queues : RecordFailure(q)
    \/ \E q \in Queues : RecordSuccess(q)
    \/ ~Busy /\ \E c \in CallIDs, b \in BookingIDs, u \in Users : ConfirmBooking(c, b, u)
    \/ \E c \in CallIDs : ConfirmBookingTickets(c)
    \/ ~Busy /\ \E c \in CallIDs, b \in BookingIDs, u \in Users : CancelBooking(c, b, u)
    \/ \E c \in CallIDs : CancelBookingTickets(c)
    \/ \E c \in CallIDs : UpdateBooking(c)
    \/ ~Busy /\ Sweep
    \/ ~Busy /\ AdvanceClock

SeqSpec == Init /\ [][SeqNext]_vars

(***************************************************************************)
(* Direct calls of the lock-table API by arbitrary callers.  Every method  *)
(* holds tlm.mu for its whole body, so each call is one step.              *)
(***************************************************************************)
Call(op, t, u, ret, count) ==
    [op |-> op, ticket |-> t, user |-> u, ret |-> ret, count |-> count]

CallLockTicket(t, u) ==
    LET r == LockTicket(locks, t, u, now)
    IN  /\ locks' = r.locks
        /\ last' = Call("LockTicket", t, u, r.ret, 0)
        /\ UNCHANGED <<now, engineVars>>

CallUnlockTicket(t, u) ==
    LET r == UnlockTicket(locks, t, u)
    IN  /\ locks' = r.locks
        /\ last' = Call("UnlockTicket", t, u, r.ret, 0)
        /\ UNCHANGED <<now, engineVars>>

CallIsTicketLocked(t) ==
    /\ last' = Call("IsTicketLocked", t, Nil, IsTicketLocked(locks, t, now), 0)
    /\ UNCHANGED <<now, locks, engineVars>>

CallGetTicketLockInfo(t) ==
    LET r == GetTicketLockInfo(locks, t, now)
    IN  /\ last' = Call("GetTicketLockInfo", t, r.lock.UserID, r.ok, 0)
        /\ UNCHANGED <<now, locks, engineVars>>

CallGetLockStats ==
    /\ last' = Call("GetLockStats", Nil, Nil, FALSE, GetLockStats(locks, now).active_locks)
    /\ UNCHANGED <<now, locks, engineVars>>

CallCleanupExpiredLocks ==
    LET r == CleanupExpiredLocks(locks, now)
    IN  /\ locks' = r.locks
        /\ last' = Call("CleanupExpiredLocks", Nil, Nil, FALSE, r.ret)
        /\ UNCHANGED <<now, engineVars>>

\* one minute passes
Tick ==
    /\ now < MaxTime
    /\ now' = now + 1
    /\ last' = Call("Tick", Nil, Nil, FALSE, 0)
    /\ UNCHANGED <<locks, engineVars>>

LockInit == Init

LockNext ==
    \/ \E t \in Tickets, u \in Users : CallLockTicket(t, u)
    \/ \E t \in Tickets, u \in Users : CallUnlockTicket(t, u)
    \/ \E t \in Tickets : CallIsTicketLocked(t)
    \/ \E t \in Tickets : CallGetTicketLockInfo(t)
    \/ CallGetLockStats
    \/ CallCleanupExpiredLocks
    \/ Tick

LockSpec == LockInit /\ [][LockNext]_vars

(***************************************************************************)
(* Direct calls of the queue manager by arbitrary callers: Enqueue and     *)
(* GetQueue, and a consumer's receive from a queue.                        *)
(***************************************************************************)
\* the longest event identifier GetQueue is called with
MaxEventLen == 2
\* the characters of event identifiers: "-", "1", "2", "e"
EventChars == {45, 49, 50, 101}
\* eventID.String(), for any event identifier
EventStrings ==
    UNION {[1..n -> EventChars] : n \in 1..MaxEventLen}

QueueCall(op, e, id, err, index) ==
    [op |-> op, ticket |-> Nil, user |-> Nil, ret |-> err, count |-> index,
     event |-> e, id |-> id]

\* qm.Enqueue(req)
CallEnqueue(e, id) ==
    LET req == [ID |-> id, UserID |-> "u1", EventID |-> e, TicketIDs |-> <<"t1">>]
        r == Enqueue(queues, req)
    IN  /\ queues' = r.queues
        /\ last' = QueueCall("Enqueue", e, id, r.err, GetQueue(e))
        /\ UNCHANGED <<now, locks, proc, stats, tickets, bookings, submitted, calls,
                       life, elmVars, lockReq, outcome>>

\* qm.GetQueue(eventID): the index of the queue returned
CallGetQueue(e) ==
    /\ last' = QueueCall("GetQueue", e, 0, FALSE, GetQueue(e))
    /\ UNCHANGED <<now, locks, engineVars>>

\* qm.getQueueIndex(eventID)
CallGetQueueIndex(e) ==
    /\ last' = QueueCall("getQueueIndex", e, 0, FALSE, getQueueIndex(e))
    /\ UNCHANGED <<now, locks, engineVars>>

\* req := <-queue
CallReceive(q) ==
    /\ queues[q] # <<>>
    /\ queues' = [queues EXCEPT ![q] = Tail(@)]
    /\ last' = QueueCall("Receive", Head(queues[q]).EventID, Head(queues[q]).ID, FALSE, q)
    /\ UNCHANGED <<now, locks, proc, stats, tickets, bookings, submitted, calls, life,
                   elmVars, lockReq, outcome>>

QueueNext ==
    \/ \E e \in Events, id \in BookingIDs : CallEnqueue(e, id)
    \/ \E e \in EventStrings : CallGetQueue(e)
    \/ \E e \in EventStrings : CallGetQueueIndex(e)
    \/ \E q \in Queues : CallReceive(q)

QueueSpec == Init /\ [][QueueNext]_vars

(***************************************************************************)
(* The engine with fair consumers: a consumer that can take a step         *)
(* eventually takes one (the goroutines run until Shutdown and every       *)
(* collaborator call returns).                                             *)
(***************************************************************************)
\* a step of processBookingRequest by consumer q
ProcessStep(q) ==
    \/ Start(q)
    \/ ValidateUser(q)
    \/ ValidateEvent(q)
    \/ TryLock(q)
    \/ SaveBooking(q)
    \/ ReserveSelect(q)
    \/ ReserveUpdate(q)
    \/ RollbackBooking(q)
    \/ Release(q)
    \/ RecordFailure(q)
    \/ RecordSuccess(q)

\* a step of the goroutine processQueue(q)
ConsumerStep(q) == Dequeue(q, FALSE) \/ ProcessStep(q)

FairSpec == Init /\ [][Next]_vars /\ \A q \in Queues : WF_vars(ConsumerStep(q))

\* GetStats(): the counters read under bp.mu.RLock()
GetStats ==
    [total_requests |-> stats.TotalRequests,
     successful_bookings |-> stats.SuccessfulBookings,
     failed_bookings |-> stats.FailedBookings,
     queue_length |-> Len(queues[0]) + Len(queues[1]) + Len(queues[2])]

(***************************************************************************)
(* The event lock table with its callers, its sweep and its clock.         *)
(***************************************************************************)
ElmNext ==
    \/ \E c \in Callers, e \in ElmEvents : GetLockLookup(c, e)
    \/ \E c \in Callers : GetLockCreate(c)
    \/ \E c \in Callers : GetLockTouch(c)
    \/ \E c \in Callers : GetLockIncRead(c)
    \/ \E c \in Callers : GetLockIncWrite(c)
    \/ \E c \in Callers : MutexLock(c)
    \/ \E c \in Callers : MutexUnlock(c)
    \/ \E c \in Callers : ReleaseLockLookup(c)
    \/ \E c \in Callers : ReleaseLockDecRead(c)
    \/ \E c \in Callers : ReleaseLockDecWrite(c)
    \/ \E c \in Callers : ReleaseLockMark(c)
    \/ PerformCleanup
    \/ \E d \in {ShortStep, LongStep} : ElmTick(d)

ElmSpec == Init /\ [][ElmNext]_vars

(***************************************************************************)
(* The engine with Shutdown.  The processor never calls GetLock, so its    *)
(* event lock table stays empty and the sweeps of that table delete        *)
(* nothing; they are steps of JoinSpec.                                    *)
(***************************************************************************)
\* a consumer that returns as soon as bp.ctx is cancelled, wherever it is
Exit_Abort(q) ==
    /\ proc[q].pc # "stopped"
    /\ life.done
    /\ proc' = [proc EXCEPT ![q] = [Idle EXCEPT !.pc = "stopped"]]
    /\ UNCHANGED <<now, locks, last, queues, stats, tickets, bookings, submitted, calls,
                   lockReq, outcome, life, elmVars>>

\* processQueue: case <-bp.ctx.Done(): return, and the deferred bp.wg.Done()
Exit(q) ==
    /\ proc[q].pc = "idle"
    /\ life.done
    /\ proc' = [proc EXCEPT ![q].pc = "stopped"]
    /\ UNCHANGED <<now, locks, last, queues, stats, tickets, bookings, submitted, calls,
                   lockReq, outcome, life, elmVars>>

\* cleanupExpiredLocks: case <-bp.ctx.Done(): return, and the deferred bp.wg.Done()
SweepExit ==
    /\ life.sweep = "running"
    /\ life.done
    /\ life' = [life EXCEPT !.sweep = "exited"]
    /\ UNCHANGED <<now, locks, last, queues, proc, stats, tickets, bookings, submitted,
                   calls, lockReq, outcome, elmVars>>

\* Shutdown: bp.cancel()
ShutdownCancel ==
    /\ life.shutdown = "none"
    /\ life' = [life EXCEPT !.done = TRUE, !.shutdown = "wait"]
    /\ UNCHANGED <<now, locks, last, queues, proc, stats, tickets, bookings, submitted,
                   calls, lockReq, outcome, elmVars>>

\* a Shutdown that does not wait for the goroutines
ShutdownWait_NoWait ==
    /\ life.shutdown = "wait"
    /\ life' = [life EXCEPT !.shutdown = "eventLocks"]
    /\ UNCHANGED <<now, locks, last, queues, proc, stats, tickets, bookings, submitted,
                   calls, lockReq, outcome, elmVars>>

\* a Shutdown that waits for the sweep goroutine only, not for the consumers
ShutdownWait_SweepOnly ==
    /\ life.shutdown = "wait"
    /\ life.sweep = "exited"
    /\ life' = [life EXCEPT !.shutdown = "eventLocks"]
    /\ UNCHANGED <<now, locks, last, queues, proc, stats, tickets, bookings, submitted,
                   calls, lockReq, outcome, elmVars>>

\* Shutdown: bp.wg.Wait() returns once the three consumers and the sweep have
\* called bp.wg.Done()
ShutdownWait ==
    /\ life.shutdown = "wait"
    /\ \A q \in Queues : proc[q].pc = "stopped"
    /\ life.sweep = "exited"
    /\ life' = [life EXCEPT !.shutdown = "eventLocks"]
    /\ UNCHANGED <<now, locks, last, queues, proc, stats, tickets, bookings, submitted,
                   calls, lockReq, outcome, elmVars>>

\* Shutdown: bp.eventLocks.Shutdown(), that is elm.cancel() and
\* elm.cleanupTicker.Stop(); Shutdown returns
ShutdownEventLocks ==
    /\ life.shutdown = "eventLocks"
    /\ life' = [life EXCEPT !.elmDone = TRUE, !.shutdown = "returned"]
    /\ UNCHANGED <<now, locks, last, queues, proc, stats, tickets, bookings, submitted,
                   calls, lockReq, outcome, elmVars>>

\* EventLockManager.cleanupExpiredLocks: case <-elm.ctx.Done(): return
ElmSweepExit ==
    /\ life.elmSweep \in {"running", "drained"}
    /\ life.elmDone
    /\ life' = [life EXCEPT !.elmSweep = "exited"]
    /\ UNCHANGED <<now, locks, last, queues, proc, stats, tickets, bookings, submitted,
                   calls, lockReq, outcome, elmVars>>

StopNext ==
    \/ \E u \in Users, e \in Events, tl \in TicketLists : CreateBooking(u, e, tl)
    \/ \E q \in Queues : Dequeue(q, FALSE)
    \/ \E q \in Queues : ProcessStep(q)
    \/ \E q \in Queues : Exit(q)
    \/ Sweep
    \/ SweepExit
    \/ ElmSweepExit
    \/ ShutdownCancel
    \/ ShutdownWait
    \/ ShutdownEventLocks
    \/ AdvanceClock

StopSpec == Init /\ [][StopNext]_vars

\* the goroutines and the Shutdown call keep running
StopFairSpec ==
    /\ Init
    /\ [][StopNext]_vars
    /\ \A q \in Queues : WF_vars(ConsumerStep(q) \/ Exit(q))
    /\ WF_vars(SweepExit)
    /\ WF_vars(ShutdownWait)
    /\ WF_vars(ShutdownEventLocks)

\* the engine with Shutdown and the goroutine that sweeps the event lock table
JoinNext == StopNext \/ PerformCleanup

JoinSpec == Init /\ [][JoinNext]_vars

\* the ticker of cleanupExpiredLocks fires every minute for as long as the goroutine
\* has not returned; nothing is assumed about the other goroutines
SweepFairSpec == Init /\ [][StopNext]_vars /\ WF_vars(Sweep)

(***************************************************************************)
(* The engine as its caller sees it: last holds what the latest            *)
(* CreateBooking call returned or what the latest failure changed in the   *)
(* statistics.                                                             *)
(***************************************************************************)
ObsNext ==
    \/ \E u \in Users, e \in Events, tl \in TicketLists : Submit(u, e, tl, TRUE)
    \/ \E q \in Queues : Dequeue(q, FALSE)
    \/ \E q \in Queues : Start(q)
    \/ \E q \in Queues : ValidateUser(q)
    \/ \E q \in Queues : ValidateEvent(q)
    \/ \E q \in Queues : TryLock(q)
    \/ \E q \in Queues : SaveBooking(q)
    \/ \E q \in Queues : ReserveSelect(q)
    \/ \E q \in Queues : ReserveUpdate(q)
    \/ \E q \in Queues : RollbackBooking(q)
    \/ \E q \in Queues : Release(q)
    \/ \E q \in Queues : Fail(q, TRUE)
    \/ \E q \in Queues : RecordSuccess(q)
    \/ Sweep
    \/ AdvanceClock

ObsSpec == Init /\ [][ObsNext]_vars

(***************************************************************************)
(* The callers of ConfirmBooking and CancelBooking running concurrently    *)
(* with each other, between the requests of the engine, within the life   *)
(* of the ticket locks (the clock stands still).  last holds what the      *)
(* latest call that returned has returned.                                 *)
(***************************************************************************)
\* no consumer is processing a request
Quiet == \A q \in Queues : proc[q].pc = "idle"

CallsNext ==
    \/ ~Busy /\ \E u \in Users, e \in Events, tl \in TicketLists : CreateBooking(u, e, tl)
    \/ ~Busy /\ \E q \in Queues : Dequeue(q, FALSE)
    \/ \E q \in Queues : ProcessStep(q)
    \/ Quiet /\ \E c \in CallIDs, b \in BookingIDs, u \in Users :
                    ConfirmBookingCall(c, b, u, TRUE)
    \/ \E c \in CallIDs : ConfirmBookingTicketsCall(c, TRUE)
    \/ Quiet /\ \E c \in CallIDs, b \in BookingIDs, u \in Users :
                    CancelBookingCall(c, b, u, TRUE)
    \/ \E c \in CallIDs : CancelBookingTicketsCall(c, TRUE)
    \/ \E c \in CallIDs : UpdateBookingCall(c, TRUE)

CallsSpec == Init /\ [][CallsNext]_vars

(***************************************************************************)
(* Direct calls of the ticket repository by concurrent callers, each call  *)
(* on its own connection.  last records the call that returned and its     *)
(* error.                                                                  *)
(***************************************************************************)
StoreCall(op, c, ids, err) ==
    [op |-> op, ticket |-> Nil, user |-> Nil, ret |-> err, count |-> 0, id |-> c,
     ids |-> ids]

\* ReserveTickets: BeginTxx, the SELECT, the loop over ticketIDs; the call returns
\* its error here or goes on to the UPDATE
CallReserveSelect(c, ids) ==
    /\ caller[c].pc = "idle"
    /\ \E err \in BOOLEAN :
        IF err \/ ~ReserveTicketsCheck(tickets, ids)
        THEN /\ last' = StoreCall("ReserveTickets", c, ids, TRUE)
             /\ UNCHANGED caller
        ELSE /\ last' = StoreCall("select", c, ids, FALSE)
             /\ caller' = [caller EXCEPT ![c] = [pc |-> "reserveUpdate", ids |-> ids]]
    /\ UNCHANGED <<now, locks, queues, proc, stats, tickets, bookings, submitted, calls,
                   lockReq, outcome, life, elmLocks, heap>>

\* ReserveTickets: the UPDATE and tx.Commit(); on an error the deferred tx.Rollback()
\* leaves the rows as they were
CallReserveUpdate(c) ==
    /\ caller[c].pc = "reserveUpdate"
    /\ \E err \in BOOLEAN :
        /\ tickets' = IF err THEN tickets
                      ELSE ReserveTicketsUpdate(tickets, caller[c].ids)
        /\ last' = StoreCall("ReserveTickets", c, caller[c].ids, err)
    /\ caller' = [caller EXCEPT ![c] = NoCaller]
    /\ UNCHANGED <<now, locks, queues, proc, stats, bookings, submitted, calls, lockReq,
                   outcome, life, elmLocks, heap>>

\* ConfirmTickets: one UPDATE outside a transaction, then the test of rowsAffected
CallConfirmTickets(c, ids) ==
    /\ caller[c].pc = "idle"
    /\ \E err \in BOOLEAN :
        LET r == ConfirmTickets(tickets, ids)
        IN  /\ tickets' = IF err THEN tickets ELSE r.tickets
            /\ last' = StoreCall("ConfirmTickets", c, ids, err \/ r.err)
    /\ UNCHANGED <<now, locks, queues, proc, stats, bookings, submitted, calls, lockReq,
                   outcome, life, elmVars>>

\* ReleaseTickets: one UPDATE outside a transaction; its error is returned
CallReleaseTickets(c, ids) ==
    /\ caller[c].pc = "idle"
    /\ \E err \in BOOLEAN :
        /\ tickets' = IF err THEN tickets ELSE ReleaseTickets(tickets, ids)
        /\ last' = StoreCall("ReleaseTickets", c, ids, err)
    /\ UNCHANGED <<now, locks, queues, proc, stats, bookings, submitted, calls, lockReq,
                   outcome, life, elmVars>>

StoreNext ==
    \/ \E c \in Callers, ids \in TicketLists : CallReserveSelect(c, ids)
    \/ \E c \in Callers : CallReserveUpdate(c)
    \/ \E c \in Callers, ids \in TicketLists : CallConfirmTickets(c, ids)
    \/ \E c \in Callers, ids \in TicketLists : CallReleaseTickets(c, ids)

StoreSpec == Init /\ [][StoreNext]_vars

(***************************************************************************)
(* Properties of the ticket lock table, checked under LockSpec.            *)
(***************************************************************************)
\* the entry of t has not expired
Live(t) == locks[t].exists /\ now < locks[t].ExpiresAt

\* the step is the call op(t, u) of the lock-table API
IsCall(op, t, u) == last'.op = op /\ last'.ticket = t /\ last'.user = u

\* C2: while u's lock on T is live, a LockTicket(T, v) by another booker v returns
\* false and leaves the table as it was, and the entry changes only when u itself
\* releases it: no step hands a live lock to a second booker.
C2_MutualExclusion ==
    [][\A t \in Tickets :
        Live(t) =>
            /\ \A v \in Users \ {locks[t].UserID} :
                IsCall("LockTicket", t, v) => ~last'.ret /\ locks' = locks
            /\ locks'[t] # locks[t] => IsCall("UnlockTicket", t, locks[t].UserID)]_vars

\* C2 witness: a LockTicket by another booker was just refused on a live lock
C2_Witness ==
    /\ last.op = "LockTicket" /\ ~last.ret
    /\ Live(last.ticket) /\ locks[last.ticket].UserID # last.user

\* C8: a LockTicket by the holder of a live lock returns true and moves the expiry
\* to the time of this call + 10 minutes.
C8_Refresh ==
    [][\A t \in Tickets :
        (Live(t) /\ IsCall("LockTicket", t, locks[t].UserID)) =>
            last'.ret /\ locks'[t].ExpiresAt = now + 10]_vars

\* C9: UnlockTicket(T, u) returns true exactly when an entry for T exists and its
\* holder is u; then that entry alone is removed, and otherwise the table is unchanged.
C9_OwnerRelease ==
    [][\A t \in Tickets, u \in Users :
        IsCall("UnlockTicket", t, u) =>
            LET mine == locks[t].exists /\ locks[t].UserID = u
            IN  /\ last'.ret = mine
                /\ mine => /\ ~locks'[t].exists
                           /\ \A s \in Tickets \ {t} : locks'[s] = locks[s]
                /\ ~mine => locks' = locks]_vars

\* C9 witness: a booker who is not the holder was just refused the release
C9_Witness ==
    /\ last.op = "UnlockTicket" /\ ~last.ret
    /\ locks[last.ticket].exists /\ locks[last.ticket].UserID # last.user

\* C10: for an entry acquired at t0 and neither released nor swept, IsTicketLocked
\* returns true exactly while now < t0 + 10, and from t0 + 10 on a LockTicket by any
\* booker returns true and installs that booker with the expiry now + 10.
C10_LiveExpiry ==
    [][\A t \in Tickets :
        locks[t].exists =>
            /\ last'.op = "IsTicketLocked" /\ last'.ticket = t =>
                  (last'.ret <=> now < locks[t].LockedAt + 10)
            /\ \A u \in Users :
                  (IsCall("LockTicket", t, u) /\ now >= locks[t].LockedAt + 10) =>
                      /\ last'.ret
                      /\ locks'[t] = [exists |-> TRUE, UserID |-> u, LockedAt |-> now,
                                      ExpiresAt |-> now + 10]]_vars

\* C10 witness: an expired entry that no sweep has removed was just reported unlocked
C10_Witness ==
    /\ last.op = "IsTicketLocked" /\ ~last.ret
    /\ locks[last.ticket].exists /\ now >= locks[last.ticket].LockedAt + 10

(***************************************************************************)
(* Properties of the engine.                                               *)
(***************************************************************************)
\* the step is consumer q returning from processBookingRequest after recordFailure
FailureReturn(q) == proc[q].pc = "recordFailure" /\ proc'[q].pc = "idle"

\* the booker u holds a live lock on t after the step
LockedAfter(t, u) ==
    locks'[t].exists /\ locks'[t].UserID = u /\ now' < locks'[t].ExpiresAt

\* C1: no ticket is listed in two confirmed bookings that belong to different bookers
C1_NoDoubleSale ==
    \A b1, b2 \in BookingIDs :
        (/\ bookings[b1].exists /\ bookings[b1].Status = "confirmed"
         /\ bookings[b2].exists /\ bookings[b2].Status = "confirmed"
         /\ bookings[b1].UserID # bookings[b2].UserID)
        => Range(bookings[b1].TicketIDs) \cap Range(bookings[b2].TicketIDs) = {}

\* C3 as claimed: when a request returns after a failure at the lock, create or
\* reserve step, none of the tickets it names is locked by its booker.
C3_NoneLockedByBooker ==
    [][\A q \in Queues :
        (FailureReturn(q) /\ proc[q].stage \in {"lock", "create", "reserve"}) =>
            \A t \in Range(proc[q].req.TicketIDs) :
                ~LockedAfter(t, proc[q].req.UserID)]_vars

\* C3 amended: when a request returns after recording a failure, the lock table holds
\* no entry that this request created.
C3_NoLeak ==
    [][\A q \in Queues :
        FailureReturn(q) =>
            \A t \in Tickets : locks'[t].exists => lockReq'[t] # proc[q].req.ID]_vars

\* C3 witness: a request that had locked tickets is about to return its failure
C3_Witness ==
    \E q \in Queues :
        /\ proc[q].pc = "recordFailure" /\ proc[q].lockedTickets # <<>>
        /\ \A t \in Tickets : locks[t].exists => lockReq[t] # proc[q].req.ID

\* C4: when ReserveTickets failed for a request, then at its return the store holds no
\* booking created by it, no lock entry it created is left, and one failure is recorded.
C4_Compensation ==
    [][\A q \in Queues :
        (FailureReturn(q) /\ proc[q].stage = "reserve") =>
            /\ ~bookings'[proc[q].req.ID].exists
            /\ \A t \in Tickets : locks'[t].exists => lockReq'[t] # proc[q].req.ID
            /\ stats'.FailedBookings = stats.FailedBookings + 1
            /\ stats'.SuccessfulBookings = stats.SuccessfulBookings]_vars

\* C5: once a request of booker U has recorded success, a live lock of U on one of its
\* tickets is not removed or changed by the processing of any booking request.
C5_LocksStayHeld ==
    [][\A b \in BookingIDs, t \in Tickets :
        (/\ outcome[b] = "success" /\ bookings[b].exists
         /\ t \in Range(bookings[b].TicketIDs)
         /\ Live(t) /\ locks[t].UserID = bookings[b].UserID
         /\ \E q \in Queues : proc'[q] # proc[q])
        => locks'[t] = locks[t]]_vars

Conflict(q) ==
    /\ proc[q].pc = "lock"
    /\ Live(proc[q].req.TicketIDs[proc[q].i])
    /\ locks[proc[q].req.TicketIDs[proc[q].i]].UserID # proc[q].req.UserID

\* C7: tickets are tried in request order; at the first one held live by another
\* booker the request stops: it locks no further ticket, never creates a booking or
\* reserves a ticket, releases what it had locked, leaves every other booker's entry
\* as it was, and records one failure.
C7_LockConflict ==
    [][\A q \in Queues :
        LET p == proc[q]
            mine(t) == locks[t].exists /\ locks[t].UserID = p.req.UserID
        IN  /\ (p.pc = "lock" /\ proc'[q] # p) =>
                  p.lockedTickets = SubSeq(p.req.TicketIDs, 1, p.i - 1)
            /\ (Conflict(q) /\ proc'[q] # p) =>
                  /\ proc'[q].stage = "lock"
                  /\ proc'[q].pc \in {"release", "recordFailure"}
                  /\ proc'[q].lockedTickets = SubSeq(p.req.TicketIDs, 1, p.i - 1)
                  /\ locks' = locks
            /\ (p.stage = "lock" /\ proc'[q] # p) =>
                  /\ p.pc \in {"release", "recordFailure"}
                  /\ bookings' = bookings /\ tickets' = tickets
                  /\ ~bookings[p.req.ID].exists
                  /\ \A t \in Tickets :
                        locks'[t] = locks[t] \/ (mine(t) /\ ~locks'[t].exists)
                  /\ p.pc = "recordFailure" =>
                        /\ \A t \in Tickets :
                              locks[t].exists => lockReq[t] # p.req.ID
                        /\ proc'[q].pc = "idle" /\ locks' = locks
                        /\ stats'.FailedBookings = stats.FailedBookings + 1
                        /\ stats'.SuccessfulBookings = stats.SuccessfulBookings]_vars

\* C7 witness: a request found its second ticket held by another booker, released the
\* first, and is about to record the failure
C7_Witness ==
    \E q \in Queues :
        /\ proc[q].pc = "recordFailure" /\ proc[q].stage = "lock"
        /\ Len(proc[q].lockedTickets) = 1
        /\ \E t \in Tickets : Live(t) /\ locks[t].UserID # proc[q].req.UserID

\* the entries of the lock table created by request number id
OwnEntries(id) == {t \in Tickets : locks[t].exists /\ lockReq[t] = id}

\* C11: when the user lookup or the event lookup returns an error, the request goes
\* straight to recording one failure and returns: it has locked no ticket and created
\* no booking, and the lock table and the store stay as they were.
C11_ValidationFailsFast ==
    [][\A q \in Queues :
        LET p == proc[q]
        IN  /\ (p.pc \in {"user", "event"} /\ proc'[q] # p) =>
                  /\ locks' = locks /\ tickets' = tickets /\ bookings' = bookings
                  /\ proc'[q].dbErr =>
                        /\ proc'[q].pc = "recordFailure"
                        /\ proc'[q].stage = p.pc
                        /\ proc'[q].lockedTickets = <<>>
            /\ (p.stage \in {"user", "event"} /\ proc'[q] # p) =>
                  /\ p.pc = "recordFailure" /\ proc'[q].pc = "idle"
                  /\ p.lockedTickets = <<>> /\ OwnEntries(p.req.ID) = {}
                  /\ ~bookings[p.req.ID].exists
                  /\ locks' = locks /\ tickets' = tickets /\ bookings' = bookings
                  /\ stats'.FailedBookings = stats.FailedBookings + 1
                  /\ stats'.SuccessfulBookings = stats.SuccessfulBookings]_vars

\* C11 witness: a request whose event lookup failed is about to record its failure
\* while another booker's lock and reserved ticket are in place
C11_Witness ==
    \E q \in Queues :
        /\ proc[q].pc = "recordFailure" /\ proc[q].stage = "event"
        /\ \E t \in Tickets : locks[t].exists /\ tickets[t] = "reserved"

\* C12: when all tickets were locked and the booking store's Create fails, the request
\* only releases its locks and records one failure: it writes no booking row, deletes
\* none, changes no ticket status, and has no lock entry of its own left at its return.
C12_CreateFailure ==
    [][\A q \in Queues :
        LET p == proc[q]
        IN  /\ (p.pc = "create" /\ proc'[q] # p) =>
                  /\ p.lockedTickets = p.req.TicketIDs
                  /\ locks' = locks /\ tickets' = tickets
                  /\ proc'[q].dbErr =>
                        /\ bookings' = bookings
                        /\ proc'[q].stage = "create"
                        /\ proc'[q].pc = "release"
            /\ (p.stage = "create" /\ proc'[q] # p) =>
                  /\ p.pc \in {"release", "recordFailure"}
                  /\ tickets' = tickets /\ bookings' = bookings
                  /\ ~bookings[p.req.ID].exists
                  /\ p.pc = "release" =>
                        locks' = UnlockTicket(locks, p.lockedTickets[p.i], p.req.UserID).locks
                  /\ p.pc = "recordFailure" =>
                        /\ OwnEntries(p.req.ID) = {}
                        /\ proc'[q].pc = "idle" /\ locks' = locks
                        /\ stats'.FailedBookings = stats.FailedBookings + 1
                        /\ stats'.SuccessfulBookings = stats.SuccessfulBookings]_vars

\* C12 witness: a request for two tickets whose Create failed has released both and is
\* about to record its failure
C12_Witness ==
    \E q \in Queues :
        /\ proc[q].pc = "recordFailure" /\ proc[q].stage = "create"
        /\ Len(proc[q].lockedTickets) = 2

(***************************************************************************)
(* Properties of the queue manager, checked under QueueSpec.               *)
(***************************************************************************)
RECURSIVE CharSum(_)
\* the sum of the characters of an event identifier
CharSum(s) == IF s = <<>> THEN 0 ELSE Head(s) + CharSum(Tail(s))

\* the queue an event identifier is routed to
Routed(e) == CharSum(e) % QueueCount

\* what an Enqueue call did, given the queue it is routed to
Admission(q) ==
    /\ last'.ret = (Len(queues[q]) = BufferSize)
    /\ last'.ret => queues' = queues
    /\ ~last'.ret =>
          /\ Len(queues'[q]) = Len(queues[q]) + 1
          /\ SubSeq(queues'[q], 1, Len(queues[q])) = queues[q]
          /\ queues'[q][Len(queues'[q])].ID = last'.id
          /\ queues'[q][Len(queues'[q])].EventID = last'.event
          /\ \A r \in Queues \ {q} : queues'[r] = queues[r]

\* C13: Enqueue never blocks: it can always be called and returns at once.
\* It returns an error exactly when the queue the event is routed to holds
\* BufferSize requests, and then no queue changes; otherwise it returns nil
\* and the request is appended at the tail of the routed queue and of no
\* other.  No queue ever holds more than BufferSize requests.
C13_NonBlockingAdmission ==
    /\ [](\A e \in Events, id \in BookingIDs : ENABLED CallEnqueue(e, id))
    /\ [](\A q \in Queues : Len(queues[q]) <= BufferSize)
    /\ [][last'.op = "Enqueue" => Admission(Routed(last'.event))]_vars

\* an Enqueue call was refused because its routed queue is full
C13_Witness ==
    /\ last.op = "Enqueue"
    /\ last.ret
    /\ Len(queues[Routed(last.event)]) = BufferSize
    /\ \E q \in Queues : queues[q] = <<>>

Waiting == UNION {Range(queues[q]) : q \in Queues}

\* the requests a consumer has dequeued and not finished
InProcess == {proc[q].req : q \in {r \in Queues : proc[r].pc # "idle"}}

\* consumer q takes a request from its queue
Dequeued(q) == proc[q].pc = "idle" /\ proc'[q].pc = "start"

\* C15: requests are numbered in the order Enqueue admitted them.  When a
\* consumer dequeues a request, every request admitted before it for the same
\* event has already been dequeued and has completed (its outcome is
\* recorded): an earlier request that has no outcome yet is for another event.
C15_FifoPerEvent ==
    [][\A q \in Queues : Dequeued(q) =>
          \A id \in 1..(proc'[q].req.ID - 1) :
              \/ outcome[id] # "none"
              \/ \E r \in Waiting \cup InProcess :
                    r.ID = id /\ r.EventID # proc'[q].req.EventID]_vars

\* the second request of an event is dequeued after the first one, for the
\* same event, was booked
C15_Witness ==
    \E q \in Queues :
        /\ proc[q].pc = "start"
        /\ proc[q].req.ID = 2
        /\ outcome[1] = "success"
        /\ bookings[1].EventID = proc[q].req.EventID

\* the consumers that are inside processBookingRequest
Inside == {q \in Queues : proc[q].pc # "idle"}

\* C16: at most one request of an event is inside processBookingRequest at a
\* time; a request waits in, and is processed by the consumer of, the queue
\* its event is routed to and no other.
C16_PerEventSerialization ==
    /\ \A q \in Queues : \A k \in 1..Len(queues[q]) :
            Routed(queues[q][k].EventID) = q
    /\ \A q \in Inside : Routed(proc[q].req.EventID) = q
    /\ \A q \in Inside, r \in Inside :
            proc[q].req.EventID = proc[r].req.EventID => q = r

\* requests of two events are inside processBookingRequest at the same time,
\* each past its validation
C16_Witness ==
    \E q \in Inside, r \in Inside :
        /\ q # r
        /\ proc[q].req.EventID # proc[r].req.EventID
        /\ proc[q].pc = "lock"
        /\ proc[r].pc = "reserve"

\* the places where request id is held: positions in the queues and consumers
Holders(id) ==
    {h \in Queues \X (1..BufferSize) :
        h[2] <= Len(queues[h[1]]) /\ queues[h[1]][h[2]].ID = id}

Processing(id) == {q \in Inside : proc[q].req.ID = id}

\* the requests whose outcome is o
Recorded(o) == {id \in BookingIDs : outcome[id] = o}

\* the consumers that have counted their request in TotalRequests
Counted == {q \in Queues : proc[q].pc \notin {"idle", "start"}}

\* C17: an admitted request is held in exactly one place (a queue position
\* or one consumer) until its outcome is recorded and in none afterwards, so
\* it is dequeued once by one consumer and never enqueued again or retried;
\* its outcome, once recorded, never changes; TotalRequests counts each
\* dequeued request once, and SuccessfulBookings and FailedBookings count
\* exactly the requests recorded as success and as failure.
C17_AtMostOnce ==
    /\ [](\A id \in BookingIDs :
            LET held == Cardinality(Holders(id)) + Cardinality(Processing(id))
            IN  IF id <= submitted /\ outcome[id] = "none"
                THEN held = 1
                ELSE held = 0 /\ (id > submitted => outcome[id] = "none"))
    /\ [](/\ stats.SuccessfulBookings = Cardinality(Recorded("success"))
          /\ stats.FailedBookings = Cardinality(Recorded("failure"))
          /\ stats.TotalRequests =
                Cardinality(Recorded("success")) + Cardinality(Recorded("failure"))
                    + Cardinality(Counted))
    /\ [][\A id \in BookingIDs :
            outcome[id] # "none" => outcome'[id] = outcome[id]]_vars

\* both requests were consumed, one booked and one failed
C17_Witness ==
    /\ outcome[1] = "failure"
    /\ outcome[2] = "success"
    /\ stats = [TotalRequests |-> 2, SuccessfulBookings |-> 1, FailedBookings |-> 1]
    /\ Inside = {}

\* C18: with consumers that keep running and collaborator calls that return,
\* every request Enqueue admitted is eventually dequeued and ends with its
\* success or its failure recorded.
C18_EventualProcessing ==
    \A id \in BookingIDs :
        (submitted >= id) ~> (outcome[id] # "none" /\ Holders(id) = {}
                                 /\ Processing(id) = {})

\* every admitted request has been dequeued and has its outcome recorded,
\* and nothing is left waiting or in process
C18_Witness ==
    /\ submitted = MaxRequests
    /\ \A id \in 1..submitted : outcome[id] # "none"
    /\ outcome[1] = outcome[2]
    /\ Inside = {}
    /\ Waiting = {}

\* the requests finished so far, as the counters give them
Finished == stats.SuccessfulBookings + stats.FailedBookings

Rank(p) ==
    LET n == Len(p.req.TicketIDs)
        m == Len(p.lockedTickets)
    IN  CASE p.pc = "idle" -> 0
          [] p.pc \in {"recordFailure", "recordSuccess"} -> 1
          [] p.pc = "release" -> (m - p.i + 1) + 1
          [] p.pc = "delete" -> m + 2
          [] p.pc = "reserveUpdate" -> m + 3
          [] p.pc = "reserve" -> m + 4
          [] p.pc = "create" -> n + 5
          [] p.pc = "lock" -> (n - p.i + 1) + n + 5
          [] p.pc = "event" -> 2 * n + 6
          [] p.pc = "user" -> 2 * n + 7
          [] p.pc = "start" -> 2 * n + 8

\* C20: no consumer waits for a ticket lock.  A consumer inside
\* processBookingRequest can always take its next step, whatever the other
\* consumers hold, and each of its steps brings it strictly closer to its
\* return: the invocation ends within 2 * Len(TicketIDs) + 8 of its own
\* steps, so the consumers cannot deadlock on ticket locks.
C20_NoWaiting ==
    /\ [](\A q \in Inside : ENABLED ProcessStep(q))
    /\ [](\A q \in Queues : Rank(proc[q]) <= 2 * Len(proc[q].req.TicketIDs) + 8)
    /\ [][\A q \in Queues :
            (proc[q].pc # "idle" /\ proc'[q] # proc[q]) =>
                Rank(proc'[q]) < Rank(proc[q])]_vars

\* two consumers each hold the ticket the other one is about to ask for
C20_Witness ==
    \E q \in Inside, r \in Inside :
        /\ q # r
        /\ proc[q].pc = "lock" /\ proc[r].pc = "lock"
        /\ proc[q].i = 2 /\ proc[r].i = 2
        /\ proc[q].req.UserID # proc[r].req.UserID
        /\ proc[q].req.TicketIDs[2] = proc[r].lockedTickets[1]
        /\ proc[r].req.TicketIDs[2] = proc[q].lockedTickets[1]
        /\ \A t \in Tickets : Live(t)

(***************************************************************************)
(* Properties of Shutdown, checked under StopSpec and StopFairSpec.        *)
(***************************************************************************)
\* C21: a consumer leaves only from its select, never from inside
\* processBookingRequest: a request in process when bp.ctx is cancelled goes
\* on, step by step, to its recordSuccess or recordFailure.  When Shutdown
\* has returned every consumer has left and every entry of the ticket lock
\* table was created by a request that recorded success.
C21_InFlightFinish ==
    /\ [][\A q \in Queues :
            /\ (proc'[q].pc = "stopped" /\ proc[q].pc # "stopped") => proc[q].pc = "idle"
            /\ (proc[q].pc \notin {"idle", "stopped"} /\ proc'[q].pc = "idle") =>
                  /\ proc[q].pc \in {"recordSuccess", "recordFailure"}
                  /\ outcome'[proc[q].req.ID] # "none"]_vars
    /\ [](life.shutdown = "returned" =>
            /\ \A q \in Queues : proc[q].pc = "stopped"
            /\ \A t \in Tickets :
                  locks[t].exists => lockReq[t] # 0 /\ outcome[lockReq[t]] = "success")

\* after the cancellation one consumer has left while another one, in the
\* failure path of its request, still has two tickets to unlock
C21_Witness ==
    /\ life.shutdown = "wait"
    /\ \E q \in Queues, r \in Queues :
          /\ proc[r].pc = "stopped"
          /\ proc[q].pc = "release"
          /\ proc[q].i = 1
          /\ Len(proc[q].lockedTickets) = 2
          /\ \A t \in Tickets : lockReq[t] = proc[q].req.ID

\* the goroutines bp.wg counts have all returned
AllExited == (\A q \in Queues : proc[q].pc = "stopped") /\ life.sweep = "exited"

\* C22: Shutdown cancels bp.ctx first; no consumer and no ticket-lock sweep
\* leaves before that; the event lock table's sweep is stopped only when the
\* three consumers and the ticket-lock sweep have left, and it runs until
\* then; with consumers that finish their requests, a Shutdown that has been
\* called returns.
C22_ShutdownOrder ==
    /\ [][/\ life'.done # life.done => life.shutdown = "none" /\ life'.shutdown = "wait"
          /\ \A q \in Queues :
                (proc'[q].pc = "stopped" /\ proc[q].pc # "stopped") => life.done
          /\ life'.sweep # life.sweep => life.done
          /\ life'.elmDone # life.elmDone => life.done /\ AllExited
          /\ life'.elmSweep # life.elmSweep => life.elmDone
          /\ life'.shutdown = "returned" => life'.elmDone /\ AllExited']_vars
    /\ [](~life.elmDone => ENABLED PerformCleanup)
    /\ (life.shutdown = "wait") ~> (life.shutdown = "returned")

\* Shutdown has returned after a request was processed, with another request
\* left in its queue
C22_Witness ==
    /\ life.shutdown = "returned"
    /\ life.elmSweep = "exited"
    /\ outcome[1] # "none"
    /\ Waiting # {}

(***************************************************************************)
(* What the caller can tell, checked under ObsSpec.                        *)
(***************************************************************************)
\* the causes of a failed request the caller has to tell apart
FailureCauses == {"rejected", "conflict", "persistence"}

\* C23: when one request fails after another and the two failed by
\* different causes (rejected at admission, lock conflict, persistence
\* failure), what the engine exposes of the two differs: the error
\* CreateBooking returned or the change of the counters GetStats reports.
C23_Distinguishable ==
    [][(/\ last # last'
        /\ last.op \in {"CreateBooking", "recordFailure"}
        /\ last'.op \in {"CreateBooking", "recordFailure"}
        /\ last.cause \in FailureCauses
        /\ last'.cause \in FailureCauses
        /\ last.cause # last'.cause)
            => last.exposed # last'.exposed]_vars

(***************************************************************************)
(* Properties of the ticket repository, checked under StoreSpec.           *)
(***************************************************************************)
\* the tickets outside the list ids keep their status in the step
OthersKept(ids) == \A t \in Tickets \ Range(ids) : tickets'[t] = tickets[t]

\* C24: a ReserveTickets call that returns nil has moved every listed
\* ticket from available to reserved, and one that returns an error has
\* changed no ticket: no ticket that is not available when the call writes
\* is set to reserved, so of two concurrent calls on overlapping lists at
\* most one returns nil.
C24_ReserveAtomic ==
    [][last'.op = "ReserveTickets" =>
          /\ OthersKept(last'.ids)
          /\ IF last'.ret
             THEN tickets' = tickets
             ELSE \A t \in Range(last'.ids) :
                      tickets[t] = "available" /\ tickets'[t] = "reserved"]_vars

\* C25: ConfirmTickets either moves every listed ticket from reserved to
\* sold and returns nil, or returns an error and changes no ticket;
\* ReleaseTickets either returns every listed ticket to available or
\* changes none.
C25_BatchAllOrNothing ==
    [][/\ last'.op = "ConfirmTickets" =>
             /\ OthersKept(last'.ids)
             /\ IF last'.ret
                THEN tickets' = tickets
                ELSE \A t \in Range(last'.ids) :
                         tickets[t] = "reserved" /\ tickets'[t] = "sold"
       /\ last'.op = "ReleaseTickets" =>
             /\ OthersKept(last'.ids)
             /\ \/ tickets' = tickets
                \/ \A t \in Range(last'.ids) : tickets'[t] = "available"]_vars

(***************************************************************************)
(* Properties of the event lock table, checked under ElmSpec.              *)
(***************************************************************************)
\* no caller is inside GetLock or ReleaseLock
Quiescent == \A c \in Callers : caller[c].pc \in {"idle", "got", "critical", "unlocked"}

\* the callers that have obtained the handle of event e and not yet called
\* ReleaseLock
Holding(e) == {c \in Callers : caller[c].handle # 0 /\ caller[c].event = e}

\* C26: whenever no GetLock or ReleaseLock call is in progress, the refCount
\* of each entry is the number of GetLock calls that completed on it minus
\* the number of ReleaseLock calls that completed on it.
C26_RefCountExact ==
    Quiescent =>
        \A e \in ElmEvents :
            elmLocks[e] # 0 =>
                heap[elmLocks[e]].refCount =
                    heap[elmLocks[e]].gets - heap[elmLocks[e]].releases

\* C27: the entry of an event is not removed while a caller that obtained
\* its handle through GetLock has not yet called ReleaseLock.
C27_EntriesSurviveHolds ==
    [][\A e \in ElmEvents :
          (elmLocks[e] # 0 /\ elmLocks'[e] = 0) => Holding(e) = {}]_vars

\* C28: the callers between their GetLock and their ReleaseLock of an event
\* all hold the same handle, and at most one of them is inside the critical
\* section the handle guards.
C28_OneHandlePerEvent ==
    \A e \in ElmEvents :
        /\ \A c \in Holding(e), d \in Holding(e) : caller[c].handle = caller[d].handle
        /\ Cardinality({c \in Holding(e) : caller[c].pc = "critical"}) <= 1

\* the eviction policy: more than 30 minutes since the last use, or no
\* reference and more than 5 minutes since the last use
Policy(o, n) ==
    \/ n - heap[o].lastUsed > EventLockTTL
    \/ (heap[o].refCount = 0 /\ n - heap[o].lastUsed > MaxIdle)

\* a step of the sweep: the callers, the structs and the clock stay as they are
SweepStep == caller' = caller /\ heap' = heap /\ now' = now

\* C29: a sweep removes an entry if and only if the eviction policy holds
\* for it; an entry last used less than 5 minutes ago is kept.
C29_EvictionPolicy ==
    [][SweepStep =>
          \A e \in ElmEvents :
              elmLocks[e] # 0 =>
                  ((elmLocks'[e] = 0) <=> Policy(elmLocks[e], now))]_vars

\* The entries whose expiry has passed at time n.
Passed(tbl, n) == {t \in Tickets : tbl[t].exists /\ n > tbl[t].ExpiresAt}

\* A call by user u on ticket t and a sweep give the same return values and the
\* same table in either order.
Commutes(tbl, t, u, n) ==
    LET s0 == CleanupExpiredLocks(tbl, n)
        l1 == LockTicket(s0.locks, t, u, n)
        l2 == LockTicket(tbl, t, u, n)
        s2 == CleanupExpiredLocks(l2.locks, n)
        u1 == UnlockTicket(s0.locks, t, u)
        u2 == UnlockTicket(tbl, t, u)
        s3 == CleanupExpiredLocks(u2.locks, n)
    IN  /\ l1 = [ret |-> l2.ret, locks |-> s2.locks]
        /\ s2.ret = s0.ret
        /\ u1 = [ret |-> u2.ret, locks |-> s3.locks]
        /\ s3.ret = s0.ret

\* C30: a call of CleanupExpiredLocks deletes every entry whose expiry has
\* passed, leaves every entry that IsTicketLocked reports as locked as it was,
\* creates or alters no entry, and returns the number of entries it deleted;
\* and a LockTicket or UnlockTicket on a ticket the sweep does not delete has
\* the same result, and leaves the same table, before the sweep as after it.
C30_SweepSemantics ==
    [][last'.op = "CleanupExpiredLocks" =>
        /\ \A t \in Passed(locks, now) : ~locks'[t].exists
        /\ \A t \in Tickets : IsTicketLocked(locks, t, now) => locks'[t] = locks[t]
        /\ \A t \in Tickets : locks'[t] = locks[t] \/ (locks[t].exists /\ locks'[t] = NoLock)
        /\ last'.count = Cardinality({t \in Tickets : locks[t].exists /\ ~locks'[t].exists})
        /\ \A t \in Tickets \ Passed(locks, now), u \in Users : Commutes(locks, t, u, now)
    ]_vars

\* C30: a sweep has just deleted an entry whose expiry had passed while another
\* ticket is still reported as locked.
C30_Witness ==
    /\ last.op = "CleanupExpiredLocks"
    /\ last.count >= 1
    /\ \E t \in Tickets : IsTicketLocked(locks, t, now)
    /\ \E t \in Tickets : ~locks[t].exists

Expired(t) == locks[t].exists /\ now > locks[t].ExpiresAt

\* C32: while Shutdown has not been called, an entry of the ticket lock table whose
\* expiry has passed is eventually gone from the table, unless the ticket is
\* acquired again first (which replaces the entry by one that has not expired).
C32_SweepLiveness ==
    \A t \in Tickets : Expired(t) ~> (~Expired(t) \/ life.done)

\* C32: the only request ever submitted succeeded, which leaves its locks held, and
\* with Shutdown not called the sweep has removed one of them after its expiry.
C32_Witness ==
    /\ submitted = 1
    /\ outcome[1] = "success"
    /\ ~life.done
    /\ now > LockTTL
    /\ \E t \in Range(bookings[1].TicketIDs) : ~locks[t].exists

\* a sweep of the event lock table runs in this step
ElmSweeps ==
    /\ life.elmSweep = "running"
    /\ life'.elmSweep \in {"running", "drained"}
    /\ life'.shutdown = life.shutdown /\ life'.sweep = life.sweep
    /\ UNCHANGED <<now, locks, last, queues, proc, stats, tickets, bookings, submitted,
                   calls, lockReq, outcome, heap, caller>>
    /\ life' # life \/ elmLocks' # elmLocks

\* C33: once Shutdown has returned, the goroutine that sweeps the ticket lock table
\* has returned and no sweep of the event lock table runs.
C33_SweepsJoined ==
    [][life.shutdown = "returned" => life.sweep = "exited" /\ ~ElmSweeps]_vars

(***************************************************************************)
(* ConfirmBooking and CancelBooking as their callers see them, checked     *)
(* under CallsSpec.                                                        *)
(***************************************************************************)
\* the call in slot c passes its checks in this step
Passes(c, op) == calls[c] = NoCall /\ calls'[c].op = op

\* the call in slot c returns in this step, having passed its checks earlier
Returns(c, op) == calls[c].op = op /\ calls'[c] = NoCall

\* a call of the use case op returns at its checks in this step
Rejected(op) == calls' = calls /\ last' # last /\ last'.op = op

\* booking b exists, belongs to user u and is pending
Confirmable(b, u) ==
    bookings[b].exists /\ bookings[b].UserID = u /\ bookings[b].Status = "pending"

CancelSteps == \E c \in CallIDs : calls[c].op = "cancel" /\ calls'[c] # calls[c]

\* C35: no step of a CancelBooking call changes the status of a booking that is
\* confirmed, or the status of one of its tickets.
C35_ConfirmedStaysConfirmed ==
    [][CancelSteps =>
        \A b \in BookingIDs :
            (bookings[b].exists /\ bookings[b].Status = "confirmed") =>
                /\ bookings'[b].Status = "confirmed"
                /\ \A t \in Range(bookings[b].TicketIDs) : tickets'[t] = tickets[t]
    ]_vars

\* C36: when a CancelBooking call returns nil, the tickets of the booking are
\* available in the store and the booker has no entry for them in the ticket
\* lock table, so that LockTicket by another booker succeeds on each of them.
C36_CancelFreesTickets ==
    [][\A c \in CallIDs :
        (Returns(c, "cancel") /\ ~last'.ret) =>
            \A t \in Range(calls[c].TicketIDs) :
                /\ tickets'[t] = "available"
                /\ ~(locks'[t].exists /\ locks'[t].UserID = calls[c].UserID)
                /\ \A u \in Users \ {calls[c].UserID} : LockTicket(locks', t, u, now').ret
    ]_vars

\* C37: no step of a CancelBooking call, and in particular none of a call that
\* cancels a booking which is cancelled already, takes a reserved ticket away
\* from a pending booking other than the one the call names.
C37_PendingHoldTickets ==
    [][\A c \in CallIDs :
        (/\ calls[c].op = "cancel" /\ calls'[c] # calls[c]
         /\ bookings[calls[c].BookingID].Status = "cancelled") =>
            \A b \in BookingIDs \ {calls[c].BookingID} :
                (bookings[b].exists /\ bookings[b].Status = "pending") =>
                    \A t \in Range(bookings[b].TicketIDs) :
                        tickets[t] = "reserved" => tickets'[t] = "reserved"
    ]_vars

\* C38: when a ConfirmBooking call returns after it has moved the tickets to sold,
\* the booking is confirmed, and when it returns without having done so it has
\* changed no ticket; when a CancelBooking call returns an error for a booking
\* whose request the engine recorded as a success, the tickets of the booking are
\* still reserved.
C38_ConfirmCancelAtomic ==
    [][\A c \in CallIDs :
        /\ (Returns(c, "confirm") /\ calls[c].pc = "update") =>
                bookings'[calls[c].BookingID].Status = "confirmed"
        /\ (Returns(c, "confirm") /\ calls[c].pc = "tickets") => tickets' = tickets
        /\ (Returns(c, "cancel") /\ last'.ret /\ outcome[calls[c].BookingID] = "success") =>
                \A t \in Range(calls[c].TicketIDs) : tickets'[t] = "reserved"
    ]_vars

(***************************************************************************)
(* Consumption after Shutdown, checked under StopSpec.                     *)
(***************************************************************************)
\* s is a prefix of t
IsPrefix(s, t) == Len(s) <= Len(t) /\ \A i \in 1..Len(s) : s[i] = t[i]

\* C39: once Shutdown has returned every consumer has left; from then on no
\* step takes a request out of a queue, no step moves a consumer, and the
\* counters and the outcomes of the requests do not change: the requests
\* waiting in a queue, those Enqueue accepts afterwards included, stay where
\* they are, unprocessed and uncounted.
C39_NoConsumptionAfterShutdown ==
    /\ [][life.shutdown = "returned" =>
            /\ proc' = proc
            /\ stats' = stats
            /\ outcome' = outcome
            /\ \A q \in Queues : IsPrefix(queues[q], queues'[q])]_vars
    /\ [](life.shutdown = "returned" =>
            /\ \A q \in Queues : proc[q].pc = "stopped"
            /\ \A r \in Waiting : outcome[r.ID] = "none")

\* Shutdown has returned, every request submitted so far is waiting in a
\* queue and none was counted
C39_Witness ==
    /\ life.shutdown = "returned"
    /\ submitted > 0
    /\ Cardinality(Waiting) = submitted
    /\ stats.TotalRequests = 0

(***************************************************************************)
(* The queries of the ticket lock table, checked under LockSpec.           *)
(***************************************************************************)
\* C40: at every instant and for every ticket IsTicketLocked returns true
\* exactly when GetTicketLockInfo returns an entry, GetLockStats reports
\* as active_locks the number of tickets for which IsTicketLocked is true,
\* and total_locks = active_locks + expired_locks.
C40_QueriesAgree ==
    LET st == GetLockStats(locks, now)
    IN  /\ \A t \in Tickets :
              IsTicketLocked(locks, t, now) <=> GetTicketLockInfo(locks, t, now).ok
        /\ st.active_locks = Cardinality({t \in Tickets : IsTicketLocked(locks, t, now)})
        /\ st.total_locks = st.active_locks + st.expired_locks

==============================================================================
